-------------------------- MODULE IncidentTimeline ---------------------------
(***************************************************************************)
(* The lifecycle of an incident and its timeline (internal/domain/         *)
(* monitoring/service.go, internal/api/impl_incidents.go).  A transition   *)
(* is a transaction: an UPDATE guarded by the status, then a comment.      *)
(* now() is the time the transaction began, for the row's times and for    *)
(* the comment's; the UPDATE may have waited for another transaction.      *)
(***************************************************************************)
EXTENDS Integers, FiniteSets

CONSTANTS
    Responders, NoTime, Severities,
    MaxMoves            \* bound on transactions

ASSUME TimelineAssumption == NoTime \notin Nat

VARIABLES
    incident,   \* the row
    comments,   \* its system comments: when they were stamped, and what they say
    move,       \* each responder's transaction
    moment,
    settledAt   \* when the last transition committed, and whether it began after those before it

timelineVars == <<incident, comments, move, moment, settledAt>>

IncidentStatus == {"open", "acknowledged", "investigating", "resolved", "closed"}
NoMove == [at |-> "none"]

\* The WHERE clauses on the current status.
AcknowledgeFrom == {"open"}
InvestigateFrom == {"acknowledged"}
ResolveFrom == IncidentStatus \ {"closed"}
CloseFrom == {"resolved"}
ReopenFrom == {"resolved"}

\* What each UPDATE sets, at the transaction's time t.
AcknowledgeRow(row, t) == [row EXCEPT !.status = "acknowledged", !.acknowledged = t]
InvestigateRow(row) == [row EXCEPT !.status = "investigating"]
ResolveRow(row, t) == [row EXCEPT !.status = "resolved", !.resolved = t, !.born = FALSE]
CloseRow(row) == [row EXCEPT !.status = "closed"]
ReopenRow_KeepsResolvedAt(row) == [row EXCEPT !.status = "open", !.born = FALSE]
ReopenRow(row) == [row EXCEPT !.status = "open", !.resolved = NoTime, !.born = FALSE]

\* ListIncidentComments: in the order of created_at.
ListIncidentComments(n) == CHOOSE c \in comments : Cardinality({d \in comments : d.at < c.at}) = n - 1
LatestComment == ListIncidentComments(Cardinality(comments))

\* CreateIncident takes any status the CHECK allows, and sets neither time; born
\* says that the incident has not been resolved or reopened since.
TimelineInit ==
    /\ incident \in [status : IncidentStatus, acknowledged : {NoTime}, resolved : {NoTime}, born : {TRUE}, severity : Severities]
    /\ comments = {}
    /\ move = [p \in Responders |-> NoMove]
    /\ moment = 0
    /\ settledAt = [time |-> 0, inOrder |-> TRUE]

Begin(p) ==
    /\ move[p] = NoMove
    /\ moment < 2 * MaxMoves
    /\ moment' = moment + 1
    /\ move' = [move EXCEPT ![p] = [at |-> "begun", stamp |-> moment']]
    /\ UNCHANGED <<incident, comments, settledAt>>

\* The row belongs to the transaction that has updated it.
Locked == \E p \in Responders : move[p].at = "updated"

\* The guarded UPDATE, on the row as last committed.  No row: the transaction
\* ends with ErrInvalidStateTransition.
Update(p, from, row, says) ==
    /\ move[p].at = "begun" /\ ~Locked
    /\ IF incident.status \in from
       THEN move' = [move EXCEPT ![p] =
                [at |-> "updated", stamp |-> @.stamp, row |-> row, says |-> says]]
       ELSE move' = [move EXCEPT ![p] = NoMove]
    /\ UNCHANGED <<incident, comments, moment, settledAt>>

AcknowledgeIncident(p) ==
    Update(p, AcknowledgeFrom, AcknowledgeRow(incident, move[p].stamp), "acknowledged")
StartInvestigatingIncident(p) == Update(p, InvestigateFrom, InvestigateRow(incident), "investigating")
ResolveIncident(p) == Update(p, ResolveFrom, ResolveRow(incident, move[p].stamp), "resolved")
CloseIncident(p) == Update(p, CloseFrom, CloseRow(incident), "closed")
ReopenIncident(p) == Update(p, ReopenFrom, ReopenRow(incident), "open")

\* The comment and the commit.
WriteComment(p) ==
    /\ move[p].at = "updated"
    /\ moment' = moment + 1
    /\ incident' = move[p].row
    /\ comments' = comments \cup {[at |-> move[p].stamp, says |-> move[p].says]}
    /\ settledAt' = [time |-> moment', inOrder |-> move[p].stamp > settledAt.time]
    /\ move' = [move EXCEPT ![p] = NoMove]

\* UpdateIncident writes the fields named in the request but never the status; it
\* waits for a transition under way.
UpdateIncident(severity) ==
    /\ ~Locked
    /\ incident' = [incident EXCEPT !.severity = severity]
    /\ UNCHANGED <<comments, move, moment, settledAt>>

\* The comment fails, or the connection does: both are undone.
RollBack(p) ==
    /\ move[p].at = "updated"
    /\ move' = [move EXCEPT ![p] = NoMove]
    /\ UNCHANGED <<incident, comments, moment, settledAt>>

TimelineNext ==
    \/ \E p \in Responders : Begin(p)
    \/ \E p \in Responders : AcknowledgeIncident(p)
    \/ \E p \in Responders : StartInvestigatingIncident(p)
    \/ \E p \in Responders : ResolveIncident(p)
    \/ \E p \in Responders : CloseIncident(p)
    \/ \E p \in Responders : ReopenIncident(p)
    \/ \E p \in Responders : WriteComment(p)
    \/ \E p \in Responders : RollBack(p)
    \/ \E severity \in Severities : UpdateIncident(severity)

TimelineSpec == TimelineInit /\ [][TimelineNext]_timelineVars

\* The last comment of the timeline says the status of the row (service.go:165),
\* when the transaction that wrote it began after all others had committed.
TimelineTellsTheStatus ==
    comments # {} /\ settledAt.inOrder => LatestComment.says = incident.status

\* The times of the row agree with its status and with the timeline: it has a
\* resolution time exactly while it is resolved or closed, work on it was
\* acknowledged, and each time is that of a comment, but for what a status given
\* at creation skipped.
RowTellsItsPast ==
    /\ incident.born \/ (incident.resolved # NoTime <=> incident.status \in {"resolved", "closed"})
    /\ incident.born \/ (incident.status \in {"acknowledged", "investigating"}
                            => incident.acknowledged # NoTime)
    /\ \A c \in {[at |-> incident.resolved, says |-> "resolved"],
                 [at |-> incident.acknowledged, says |-> "acknowledged"]} :
          c.at # NoTime => c \in comments

\* Whoever reads an incident learns the same from its row and from its timeline
\* (monitoring/service.go:122).
IncidentTellsItsPast == TimelineTellsTheStatus /\ RowTellsItsPast
==============================================================================
