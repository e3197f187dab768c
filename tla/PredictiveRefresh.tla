-------------------------- MODULE PredictiveRefresh --------------------------
(***************************************************************************)
(* Refresh recommendations (internal/domain/predictive/refresh.go).  A     *)
(* scan reads the lifecycle dates of the tenant's assets, then in one      *)
(* transaction upserts a row for every rule that matches and sweeps the    *)
(* open rows stamped before the transaction began.  Scans, started by the  *)
(* scheduler or by an operator, may overlap, and operators review rows.    *)
(* Statements of a transaction hold their rows until it ends, so it is one *)
(* step; its stamp, now(), is that of its begin.                           *)
(***************************************************************************)
EXTENDS Integers, FiniteSets

CONSTANTS
    Devices, NoDate,
    Specs,                  \* the lifecycle fields an asset may be given
    Scanners,
    WarrantyHorizonDays, EOLHorizonDays,    \* DefaultRuleConfig; AgedOutMargin is 0
    FirstDay, LastDay,
    MaxScans, MaxSpecEdits

VARIABLES
    lifecycle,          \* the date columns of the assets that exist
    recommendations,    \* predictive_refresh_recommendations, by asset and kind
    scan,               \* what each scan has done so far
    today, stamps, specEdits,
    settled             \* nothing has happened since a scan that nothing disturbed

refreshVars == <<lifecycle, recommendations, scan, today, stamps, specEdits, settled>>

Statuses == {"open", "ack", "resolved"}
NotScanning == [at |-> "idle"]

daysBetween(from, to) == to - from

\* Scores are in hundredths.
scoreFromDeadline(daysRemaining, horizonDays) ==
    CASE horizonDays <= 0 -> 5000
      [] horizonDays > 0 /\ daysRemaining <= 0 -> 10000
      [] horizonDays > 0 /\ daysRemaining > horizonDays -> 0
      [] OTHER -> (10000 * (horizonDays - daysRemaining) + horizonDays \div 2) \div horizonDays

scoreFromDaysPast(daysPast, saturationDays) ==
    IF daysPast <= 0 THEN 10000
    ELSE LET days == IF daysPast > saturationDays THEN saturationDays ELSE daysPast
         IN 8000 + (2000 * days + saturationDays \div 2) \div saturationDays

Match(kind, score, target) == [kind |-> kind, score |-> score, target |-> target]

\* A date is past, or within the horizon, or too far off to match.
Past(kind, date, saturation, day) ==
    IF date # NoDate /\ daysBetween(day, date) < 0
    THEN {Match(kind, scoreFromDaysPast(-daysBetween(day, date), saturation), date)} ELSE {}
Ahead(kind, date, horizon, day) ==
    IF date # NoDate /\ daysBetween(day, date) \in 0..horizon
    THEN {Match(kind, scoreFromDeadline(daysBetween(day, date), horizon), date)} ELSE {}

evaluateAsset(a, day) ==
    Past("warranty_expired", a.warranty, 365, day)
    \cup Ahead("warranty_expiring", a.warranty, WarrantyHorizonDays, day)
    \cup Past("eol_passed", a.eol, 730, day)
    \cup Ahead("eol_approaching", a.eol, EOLHorizonDays, day)
    \cup (IF a.bought # NoDate /\ a.lifespan # NoDate
          THEN Past("aged_out", a.bought + a.lifespan, 365, day) ELSE {})

HasLifecycle(a) == a.bought # NoDate \/ a.warranty # NoDate \/ a.eol # NoDate
ListAssetsForPredictiveScan == {d \in DOMAIN lifecycle : HasLifecycle(lifecycle[d])}
ListTenantsWithLifecycleAssets == ListAssetsForPredictiveScan # {}

\* What the rules say of a set of assets: a match by asset and kind.
Found(assets, day) ==
    LET keys == UNION {{<<d, m.kind>> : m \in evaluateAsset(lifecycle[d], day)} : d \in assets}
    IN [k \in keys |-> CHOOSE m \in evaluateAsset(lifecycle[k[1]], day) : m.kind = k[2]]

UpsertPredictiveRefresh_Reopens(table, found, stamp) ==
    [k \in DOMAIN table \cup DOMAIN found |->
        IF k \notin DOMAIN found THEN table[k]
        ELSE [score |-> found[k].score, target |-> found[k].target, detected |-> stamp,
              status |-> "open"]]

\* An upsert overwrites all but the review; an insert opens the row.
UpsertPredictiveRefresh(table, found, stamp) ==
    [k \in DOMAIN table \cup DOMAIN found |->
        IF k \notin DOMAIN found THEN table[k]
        ELSE [score |-> found[k].score, target |-> found[k].target, detected |-> stamp,
              status |-> IF k \in DOMAIN table THEN table[k].status ELSE "open"]]

DeleteStalePredictiveRefresh(table, cutoff) ==
    [k \in {j \in DOMAIN table : ~(table[j].status = "open" /\ table[j].detected < cutoff)} |-> table[k]]

ListPredictiveRefresh(status) == {k \in DOMAIN recommendations : recommendations[k].status = status}
CountPredictiveRefresh(status) == Cardinality(ListPredictiveRefresh(status))
\* The chart of the backlog; the model's dates stand for their months.
AggregatePredictiveRefreshByMonth(month) ==
    Cardinality({k \in ListPredictiveRefresh("open") : recommendations[k].target = month})

RefreshInit ==
    /\ lifecycle \in [Devices -> Specs]
    /\ recommendations = <<>>
    /\ scan = [p \in Scanners |-> NotScanning]
    /\ today = FirstDay /\ stamps = 0 /\ specEdits = 0
    /\ settled = FALSE

\* Every scan under way now works on what has changed under it.
Disturbed == [p \in Scanners |->
    IF scan[p] = NotScanning THEN NotScanning ELSE [scan[p] EXCEPT !.met = TRUE]]

\* ScanAndUpsert reads the clock and the assets before it begins its transaction.
ReadAssets(p) ==
    /\ scan[p] = NotScanning
    /\ stamps + Cardinality({q \in Scanners : scan[q].at = "read"}) < MaxScans
    /\ scan' = [scan EXCEPT ![p] =
          [at |-> "read", day |-> today, found |-> Found(ListAssetsForPredictiveScan, today), met |-> FALSE]]
    /\ UNCHANGED <<lifecycle, recommendations, today, stamps, specEdits, settled>>

\* The scheduler leaves out a tenant none of whose assets has a date.
RunScanTick(p) == ListTenantsWithLifecycleAssets /\ ReadAssets(p)
RunPredictiveRefreshScan(p) == ReadAssets(p)

BeginScan(p) ==
    /\ scan[p].at = "read"
    /\ stamps' = stamps + 1
    /\ scan' = [scan EXCEPT ![p] = [at |-> "begun", day |-> @.day, found |-> @.found, met |-> @.met,
                                    stamp |-> stamps']]
    /\ UNCHANGED <<lifecycle, recommendations, today, specEdits, settled>>

\* The upserts, the sweep and the commit; a row for an asset that is gone breaks
\* the foreign key and the whole transaction with it.
ScanAndUpsert(p) ==
    LET s == scan[p] IN
    /\ s.at = "begun"
    /\ IF \A k \in DOMAIN s.found : k[1] \in DOMAIN lifecycle
       THEN /\ recommendations' = DeleteStalePredictiveRefresh(
                  UpsertPredictiveRefresh(recommendations, s.found, s.stamp), s.stamp)
            /\ scan' = [Disturbed EXCEPT ![p] = NotScanning]
            /\ settled' = (~s.met /\ s.day = today)
       ELSE /\ scan' = [scan EXCEPT ![p] = NotScanning]
            /\ UNCHANGED <<recommendations, settled>>
    /\ UNCHANGED <<lifecycle, today, stamps, specEdits>>

\* Any statement may fail; the transaction is rolled back.
AbandonScan(p) ==
    /\ scan[p].at = "begun"
    /\ scan' = [scan EXCEPT ![p] = NotScanning]
    /\ UNCHANGED <<lifecycle, recommendations, today, stamps, specEdits, settled>>

\* Any status to any status.
TransitionPredictiveRefresh(k, status) ==
    /\ k \in DOMAIN recommendations
    /\ recommendations' = [recommendations EXCEPT ![k].status = status]
    /\ settled' = (settled /\ status # "open")
    /\ UNCHANGED <<lifecycle, scan, today, stamps, specEdits>>

UpdateLifecycle(d, spec) ==
    /\ d \in DOMAIN lifecycle
    /\ specEdits < MaxSpecEdits /\ specEdits' = specEdits + 1
    /\ lifecycle' = [lifecycle EXCEPT ![d] = spec]
    /\ scan' = Disturbed
    /\ settled' = FALSE
    /\ UNCHANGED <<recommendations, today, stamps>>

\* The rows of the asset go with it.
RemoveDevice(d) ==
    /\ d \in DOMAIN lifecycle
    /\ specEdits < MaxSpecEdits /\ specEdits' = specEdits + 1
    /\ lifecycle' = [e \in DOMAIN lifecycle \ {d} |-> lifecycle[e]]
    /\ recommendations' = [k \in {j \in DOMAIN recommendations : j[1] # d} |-> recommendations[k]]
    /\ scan' = Disturbed
    /\ UNCHANGED <<today, stamps, settled>>

NextDay ==
    /\ today < LastDay
    /\ today' = today + 1
    /\ settled' = FALSE
    /\ UNCHANGED <<lifecycle, recommendations, scan, stamps, specEdits>>

RefreshNext ==
    \/ \E p \in Scanners : RunScanTick(p) \/ RunPredictiveRefreshScan(p)
    \/ \E p \in Scanners : BeginScan(p)
    \/ \E p \in Scanners : ScanAndUpsert(p)
    \/ \E p \in Scanners : AbandonScan(p)
    \/ \E k \in DOMAIN recommendations, status \in Statuses : TransitionPredictiveRefresh(k, status)
    \/ \E d \in Devices, spec \in Specs : UpdateLifecycle(d, spec)
    \/ \E d \in Devices : RemoveDevice(d)
    \/ NextDay

RefreshSpec == RefreshInit /\ [][RefreshNext]_refreshVars

\* After a scan that no edit and no other scan disturbed, the open rows are what
\* the rules say of every asset, but for the ones an operator has settled, and
\* the chart of the backlog counts them in the months they fall due.  Earlier
\* scans leave nothing behind, whatever order they read, began and ended in.
OpenRowsMatchTheRules ==
    settled =>
        LET found == Found(DOMAIN lifecycle, today)
            closed == ListPredictiveRefresh("ack") \cup ListPredictiveRefresh("resolved")
            due(month) == {k \in DOMAIN found \ closed : found[k].target = month}
        IN /\ ListPredictiveRefresh("open") = DOMAIN found \ closed
           /\ CountPredictiveRefresh("open") = Cardinality(DOMAIN found \ closed)
           /\ \A k \in DOMAIN found :
                 /\ recommendations[k].score = found[k].score
                 /\ AggregatePredictiveRefreshByMonth(found[k].target) = Cardinality(due(found[k].target))

\* A scan never takes back what an operator decided: a row that is acknowledged
\* or resolved stays, with its status, until its asset is removed (refresh.go:99).
ReviewsOutliveScans ==
    [][scan' # scan =>
          \A k \in DOMAIN recommendations :
              recommendations[k].status # "open" /\ k[1] \in DOMAIN lifecycle' =>
                  k \in DOMAIN recommendations' /\ recommendations'[k].status = recommendations[k].status
      ]_refreshVars

\* The recommendations are the rules' and the reviews the operators' (refresh.go:72).
RecommendationsAreSound == []OpenRowsMatchTheRules /\ ReviewsOutliveScans
==============================================================================
