---------------------------- MODULE QualityScores ----------------------------
(***************************************************************************)
(* Quality scans and flags (internal/domain/quality/service.go) and the    *)
(* list that orders data corrections (internal/domain/workflows/           *)
(* auto_workorders_quality.go).  A scan reads the assets, then the flags,  *)
(* then writes one score after the other; it may be started by the         *)
(* scheduler and by an operator at once, and flags come and go meanwhile.  *)
(***************************************************************************)
EXTENDS Integers, FiniteSets, FiniteSetsExt

CONSTANTS
    Subjects,           \* assets
    Profiles,           \* what the rules and the built-in checks may see of an asset
    Rules,              \* quality_rules
    FlagIds,
    ScanRuns,           \* scans, on any replica
    DayLength,          \* ticks of a day
    LowQualityLookbackDays,
    FinalTick, MaxProfileEdits, MaxQualityScans

ASSUME QualityAssumption == DayLength \in Nat \ {0} /\ LowQualityLookbackDays \in Nat

VARIABLES
    profile,            \* the asset's fields
    flags,              \* quality_flags
    scores,             \* quality_scores
    run,                \* what each scan has done so far
    hour, profileEdits, qualityScans

qualityVars == <<profile, flags, scores, run, hour, profileEdits, qualityScans>>

flagPenaltyDefault == 5
totalFlagPenaltyCap == 40
lowQualityThreshold == 400      \* of 1000: totals are in tenths

NotBelow0(n) == IF n \in Nat THEN n ELSE 0
Total(c, a, t, s) == 4 * c + 3 * a + t + 2 * s

\* The enabled rules for the asset's type that find fault with it.
Faults(p, dimension) ==
    {r \in Rules : /\ r.dimension = dimension /\ r.enabled /\ r.ciType \in {"any", p.type}
                   /\ CASE dimension = "accuracy" -> r.ruleType = "regex" /\ r.field \in p.malformed
                        [] OTHER -> r.ruleType = "required" /\ r.field \in p.missing}

Dimension(p, dimension, extra) ==
    NotBelow0(100 - extra - MapThenSumSet(LAMBDA r : r.weight, Faults(p, dimension)))

\* One extra check for timeliness and one for consistency.
qualityEvaluateAsset(p) ==
    [completeness |-> Dimension(p, "completeness", 0),
     accuracy |-> Dimension(p, "accuracy", 0),
     timeliness |-> IF p.stale THEN 60 ELSE 100,
     consistency |-> Dimension(p, "consistency", IF p.type = "server" /\ ~p.racked THEN 50 ELSE 0)]

flagPenaltyFor(count) ==
    LET p == count * flagPenaltyDefault IN IF p > totalFlagPenaltyCap THEN totalFlagPenaltyCap ELSE p

Reported == DOMAIN flags
Untriaged(f) == flags[f].status \in {"open", "acknowledged"}

CountRecentFlagsByAsset_Settled(a) ==
    Cardinality({f \in Reported : flags[f].asset = a /\ flags[f].created > hour - DayLength})

\* Untriaged, and of the last 24 hours.
CountRecentFlagsByAsset(a) ==
    Cardinality({f \in Reported : flags[f].asset = a /\ Untriaged(f) /\ flags[f].created > hour - DayLength})

ListOpenQualityFlags == {f \in Reported : flags[f].status = "open"}

\* The scores of the last days, and the days they fall on.
Window(a) == {s \in scores : s.asset = a /\ s.at > hour - LowQualityLookbackDays * DayLength}
DayOf(h) == h \div DayLength
AssetsLowQualityPersistent ==
    {a \in Subjects : /\ Cardinality({DayOf(s.at) : s \in Window(a)}) >= LowQualityLookbackDays
                      /\ \A s \in Window(a) : s.total < lowQualityThreshold}

NoRun == [at |-> "none"]

QualityInit ==
    /\ profile \in [Subjects -> Profiles]
    /\ flags = <<>>
    /\ scores = {}
    /\ run = [q \in ScanRuns |-> NoRun]
    /\ hour = 0 /\ profileEdits = 0 /\ qualityScans = 0

\* The assets of a scan, then what it knows of the flags: seen is every flag that
\* was untriaged at some time since it began.
ListAssetsForScan(q) ==
    /\ run[q] = NoRun
    /\ qualityScans < MaxQualityScans /\ qualityScans' = qualityScans + 1
    /\ run' = [run EXCEPT ![q] = [at |-> "read", assets |-> profile, left |-> Subjects,
                                  seen |-> {f \in Reported : Untriaged(f)}]]
    /\ UNCHANGED <<profile, flags, scores, hour, profileEdits>>

\* The query for the flags may fail, which counts as none.
CountFlags(q, fails) ==
    /\ run[q].at = "read"
    /\ run' = [run EXCEPT ![q] = [at |-> "counted", assets |-> @.assets, left |-> @.left, seen |-> @.seen,
          counts |-> [a \in Subjects |-> IF fails THEN 0 ELSE CountRecentFlagsByAsset(a)]]]
    /\ UNCHANGED <<profile, flags, scores, hour, profileEdits, qualityScans>>

\* The switch ports know the asset in another rack than the one the scan has read;
\* the query's error counts as no.
MisplacedPenalty(q, a, unknown) ==
    IF ~unknown /\ run[q].assets[a].racked /\ profile[a].elsewhere THEN 50 ELSE 0

\* One asset of the scan: the flags' penalty is taken off its accuracy, that for its
\* place off its consistency.  An error of the insert is ignored.
ScoreAsset(q, a, unknown, fails) ==
    LET e == qualityEvaluateAsset(run[q].assets[a])
        accuracy == NotBelow0(e.accuracy - flagPenaltyFor(run[q].counts[a]))
        consistency == NotBelow0(e.consistency - MisplacedPenalty(q, a, unknown))
        score == [asset |-> a, at |-> hour, accuracy |-> accuracy, base |-> e.accuracy,
                  total |-> Total(e.completeness, accuracy, e.timeliness, consistency),
                  seen |-> {f \in run[q].seen : flags[f].asset = a} # {}]
    IN
    /\ run[q].at = "counted" /\ a \in run[q].left
    /\ scores' = IF fails THEN scores ELSE scores \cup {score}
    /\ run' = [run EXCEPT ![q] = IF run[q].left = {a} THEN NoRun ELSE [run[q] EXCEPT !.left = @ \ {a}]]
    /\ UNCHANGED <<profile, flags, hour, profileEdits, qualityScans>>

\* Scans that have not counted yet see the flag, when it is untriaged now.
MaySee(f, status) ==
    run' = [q \in ScanRuns |-> IF run[q].at = "read" /\ status \in {"open", "acknowledged"}
                               THEN [run[q] EXCEPT !.seen = @ \cup {f}] ELSE run[q]]

FlagIssue(f, a) ==
    /\ f \notin Reported
    /\ flags' = [g \in Reported \cup {f} |->
          IF g = f THEN [asset |-> a, status |-> "open", created |-> hour] ELSE flags[g]]
    /\ MaySee(f, "open")
    /\ UNCHANGED <<profile, scores, hour, profileEdits, qualityScans>>

\* Neither the handler nor the UPDATE looks at the status before or after.
ResolveQualityFlag(f, status) ==
    /\ f \in Reported
    /\ flags' = [flags EXCEPT ![f].status = status]
    /\ MaySee(f, status)
    /\ UNCHANGED <<profile, scores, hour, profileEdits, qualityScans>>

EditProfile(a, p) ==
    /\ profileEdits < MaxProfileEdits /\ profileEdits' = profileEdits + 1
    /\ profile' = [profile EXCEPT ![a] = p]
    /\ UNCHANGED <<flags, scores, run, hour, qualityScans>>

HourPasses ==
    /\ hour < FinalTick
    /\ hour' = hour + 1
    /\ UNCHANGED <<profile, flags, scores, run, profileEdits, qualityScans>>

QualityNext ==
    \/ \E q \in ScanRuns : ListAssetsForScan(q)
    \/ \E q \in ScanRuns, fails \in BOOLEAN : CountFlags(q, fails)
    \/ \E q \in ScanRuns, a \in Subjects, unknown, fails \in BOOLEAN : ScoreAsset(q, a, unknown, fails)
    \/ \E f \in FlagIds, a \in Subjects : FlagIssue(f, a)
    \/ \E f \in FlagIds, status \in {"open", "acknowledged", "resolved", "rejected"} :
          ResolveQualityFlag(f, status)
    \/ \E a \in Subjects, p \in Profiles : EditProfile(a, p)
    \/ HourPasses

QualitySpec == QualityInit /\ [][QualityNext]_qualityVars

\* Only a report that nobody had settled drags a score down: a score is below what
\* the asset's own fields earn only if a flag on it was untriaged at some time
\* between the start of its scan and the count, and never by more than the cap.
ScoresDropForLiveFlags ==
    \A s \in scores : s.accuracy < s.base => s.seen /\ s.base - s.accuracy <= totalFlagPenaltyCap

\* The days wholly inside the window of the data-correction list.
WholeDays == {d \in 0..DayOf(hour) : /\ d * DayLength > hour - LowQualityLookbackDays * DayLength
                                     /\ (d + 1) * DayLength - 1 <= hour}
Unscored(a) == {d \in WholeDays : \A s \in scores : s.asset = a => DayOf(s.at) # d}

\* An asset on the list was below the threshold whenever it was scored in the
\* window, and at most one day of the window went without a score.
AtMostOneDayUnscored ==
    \A a \in AssetsLowQualityPersistent :
        /\ \A s \in scores : s.asset = a /\ DayOf(s.at) \in WholeDays => s.total < lowQualityThreshold
        /\ Cardinality(Unscored(a)) <= 1

\* Scores and the corrections ordered for them rest on what was reported and what
\* was measured (quality/service.go, auto_workorders_quality.go:60).
ScoresAreFair == ScoresDropForLiveFlags /\ AtMostOneDayUnscored
==============================================================================
