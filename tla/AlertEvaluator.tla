---------------------------- MODULE AlertEvaluator ----------------------------
(***************************************************************************)
(* Alert rules of one asset, the evaluators that judge them, one goroutine *)
(* in each server replica (internal/domain/monitoring/evaluator.go), the   *)
(* bridge from alerts to incidents (incident_bridge.go) and the operators  *)
(* of alerts and incidents (service.go, db/queries).                       *)
(*                                                                         *)
(* An evaluator's memory is lost with its process; rows of alert_events    *)
(* and incidents are not.  Every SQL statement is a step of its own; the   *)
(* bridge's transaction is its lookup, and then everything it does once    *)
(* it holds the incident's row lock or knows it has to insert.             *)
(*                                                                         *)
(* Abstracted: a rule's condition, kept as whether its metric breaches it; *)
(* a tick that has no sample, or a disabled rule, is a tick that does not  *)
(* judge; severities are bridgeable ones; comments on the timeline; bus    *)
(* events, which no part of this module reads; the order of rules in a     *)
(* tick.  An incident made through the API has no affected asset, so the   *)
(* bridge never sees it.                                                   *)
(***************************************************************************)
EXTENDS Naturals

CONSTANTS
    Replicas,     \* server processes, each with its evaluator
    Rules,        \* alert rules on the asset's metrics
    Triggers,     \* consecutive_triggers of a rule
    MaxHour,      \* bound: clock hours after the first one
    MaxIncident,  \* bound: incidents the bridge may create
    MaxFailures,  \* bound: emissions cut short by a database error
    MaxRestarts   \* bound: process restarts

ASSUME EvaluatorAssumption ==
    /\ Triggers \in Nat \ {0}
    /\ MaxHour \in Nat
    /\ MaxIncident \in Nat
    /\ Rules # {}

VARIABLES
    level,      \* level[r]: the metric breaches rule r
    hour,       \* the UTC hour in the de-duplication key
    mem,        \* mem[p][r]: Evaluator.state of replica p
    streak,     \* history: breaches p judged since the last good sample
    proc,       \* what each evaluator is doing
    alert,      \* alert[r][h]: the alert_events row of a rule and an hour
    incident,   \* the incidents table
    failures, restarts

evaluatorVars == <<mem, streak, proc>>
vars == <<level, hour, mem, streak, proc, alert, incident, failures, restarts>>

Hours == 0 .. MaxHour
Incidents == 1 .. MaxIncident
NoIncident == 0

AlertStatuses == {"absent", "firing", "acknowledged", "resolved"}
ActiveStatuses == {"open", "acknowledged", "investigating"}
IncidentStatuses == ActiveStatuses \cup {"absent", "resolved", "closed"}

Memory == [count: 0 .. Triggers, firing: BOOLEAN]
Forgotten == [count |-> 0, firing |-> FALSE]

Process == [pc: {"idle", "upsert", "lookup", "attach", "create"}, rule: Rules,
            status: {"firing", "resolved"}, hour: Hours, found: SUBSET Incidents]

Resting == [pc |-> "idle", rule |-> CHOOSE r \in Rules : TRUE, status |-> "firing",
            hour |-> 0, found |-> {}]

Alert == [status: AlertStatuses, incident: Incidents \cup {NoIncident}]
Incident == [status: IncidentStatuses, resolvedAt: BOOLEAN, recent: BOOLEAN, hour: Hours]

Idle(p) == proc[p].pc = "idle"
Active(i) == incident[i].status \in ActiveStatuses
Exhausted == \A i \in Incidents : incident[i].status # "absent"

Init ==
    /\ level = [r \in Rules |-> FALSE]
    /\ hour = 0
    /\ mem = [p \in Replicas |-> [r \in Rules |-> Forgotten]]
    /\ streak = [p \in Replicas |-> [r \in Rules |-> 0]]
    /\ proc = [p \in Replicas |-> Resting]
    /\ alert = [r \in Rules |-> [h \in Hours |-> [status |-> "absent", incident |-> NoIncident]]]
    /\ incident = [i \in Incidents |->
                     [status |-> "absent", resolvedAt |-> FALSE, recent |-> FALSE, hour |-> 0]]
    /\ failures = 0
    /\ restarts = 0

------------------------------------------------------------------------------
(* The environment: the metric and the clock.                              *)

Fluctuate(r) ==
    /\ level' = [level EXCEPT ![r] = ~level[r]]
    /\ UNCHANGED <<hour, evaluatorVars, alert, incident, failures, restarts>>

NextHour ==
    /\ hour < MaxHour
    /\ hour' = hour + 1
    /\ UNCHANGED <<level, evaluatorVars, alert, incident, failures, restarts>>

\* Incident i leaves the window incidentDedupeWindow, after every older one.
AgeOut(i) ==
    /\ incident[i].recent
    /\ incident[i].hour < hour
    /\ \A j \in Incidents : j < i => ~incident[j].recent
    /\ incident' = [incident EXCEPT ![i].recent = FALSE]
    /\ UNCHANGED <<level, hour, evaluatorVars, alert, failures, restarts>>

------------------------------------------------------------------------------
(* judgeSample.  The counter is only ever compared with Triggers, so it    *)
(* stops there.                                                            *)

Bump(n) == IF n < Triggers THEN n + 1 ELSE n

\* Mutant: a good sample clears the firing flag and leaves the counter.
Reset_KeepsCount(m) == [m EXCEPT !.firing = FALSE]

Reset(m) == Forgotten

Advance(m) == [count |-> Bump(m.count), firing |-> m.firing \/ Bump(m.count) = Triggers]

\* Mutant: a firing alert is emitted on its edge only, without the refresh.
Emits_OnEdge(m, breached) ==
    IF breached THEN Advance(m).firing /\ ~m.firing ELSE m.firing

\* Mutant: the flag is tested after it was reset.
Emits_AfterReset(m, breached) == breached /\ Advance(m).firing

Emits(m, breached) == IF breached THEN Advance(m).firing ELSE m.firing

\* The key of the row is built, with the clock's hour, before any I/O.
Judge(p, r) ==
    LET m == mem[p][r]
        breached == level[r]
    IN  /\ Idle(p)
        /\ mem' = [mem EXCEPT ![p][r] = IF breached THEN Advance(m) ELSE Reset(m)]
        /\ streak' = [streak EXCEPT ![p][r] = IF breached THEN Bump(@) ELSE 0]
        /\ proc' = IF Emits(m, breached)
                   THEN [proc EXCEPT ![p] =
                           [pc |-> "upsert", rule |-> r, hour |-> hour, found |-> {},
                            status |-> IF breached THEN "firing" ELSE "resolved"]]
                   ELSE proc
        /\ UNCHANGED <<level, hour, alert, incident, failures, restarts>>

------------------------------------------------------------------------------
(* emit and linkOrCreate.                                                  *)

Rest(p) == proc' = [proc EXCEPT ![p] = Resting]

Goto(p, pc, found) == proc' = [proc EXCEPT ![p].pc = pc, ![p].found = found]

SetStatus(r, h, status) == alert' = [alert EXCEPT ![r][h].status = status]

Link(p, i) == alert' = [alert EXCEPT ![proc[p].rule][proc[p].hour].incident = i]

\* A resolved alert only comments on the incident it is linked to.
Bridged(p) == proc[p].status = "firing"

Upsert(p) ==
    /\ proc[p].pc = "upsert"
    /\ SetStatus(proc[p].rule, proc[p].hour, proc[p].status)
    /\ IF Bridged(p) THEN Goto(p, "lookup", {}) ELSE Rest(p)
    /\ UNCHANGED <<level, hour, mem, streak, incident, failures, restarts>>

\* The snapshot of the locking SELECT.
LookUp(p) ==
    LET found == {i \in Incidents : Active(i) /\ incident[i].recent}
    IN  /\ proc[p].pc = "lookup"
        /\ Goto(p, IF found = {} THEN "create" ELSE "attach", found)
        /\ UNCHANGED <<level, hour, mem, streak, alert, incident, failures, restarts>>

\* FOR UPDATE checks every row again under its lock, newest first.
Qualifying(p) == {i \in proc[p].found : Active(i)}

Attach(p) ==
    /\ proc[p].pc = "attach"
    /\ Qualifying(p) # {}
    /\ \E i \in Qualifying(p) :
          /\ \A j \in Qualifying(p) : j <= i
          /\ Link(p, i)
    /\ Rest(p)
    /\ UNCHANGED <<level, hour, mem, streak, incident, failures, restarts>>

\* Mutant: a lookup whose incident is gone gives up.
NoneQualifies_GivesUp(p) ==
    /\ proc[p].pc = "attach"
    /\ Qualifying(p) = {}
    /\ Rest(p)
    /\ UNCHANGED <<level, hour, mem, streak, alert, incident, failures, restarts>>

NoneQualifies(p) ==
    /\ proc[p].pc = "attach"
    /\ Qualifying(p) = {}
    /\ Goto(p, "create", {})
    /\ UNCHANGED <<level, hour, mem, streak, alert, incident, failures, restarts>>

Create(p) ==
    /\ proc[p].pc = "create"
    /\ \E i \in Incidents :
          /\ incident[i].status = "absent"
          /\ \A j \in Incidents : j < i => incident[j].status # "absent"
          /\ incident' = [incident EXCEPT ![i] = [status |-> "open", resolvedAt |-> FALSE,
                                                  recent |-> TRUE, hour |-> hour]]
          /\ Link(p, i)
    /\ Rest(p)
    /\ UNCHANGED <<level, hour, mem, streak, failures, restarts>>

------------------------------------------------------------------------------
(* Errors are logged and dropped; a restart forgets the memory.            *)

Fail(p) ==
    /\ ~Idle(p)
    /\ failures < MaxFailures
    /\ failures' = failures + 1
    /\ Rest(p)
    /\ UNCHANGED <<level, hour, mem, streak, alert, incident, restarts>>

Restart(p) ==
    /\ restarts < MaxRestarts
    /\ restarts' = restarts + 1
    /\ mem' = [mem EXCEPT ![p] = [r \in Rules |-> Forgotten]]
    /\ Rest(p)
    /\ UNCHANGED <<level, hour, streak, alert, incident, failures>>

------------------------------------------------------------------------------
(* Operators.  Every operation is one UPDATE guarded on the status.        *)

MoveAlert(r, h, from, to) ==
    /\ alert[r][h].status \in from
    /\ SetStatus(r, h, to)
    /\ UNCHANGED <<level, hour, evaluatorVars, incident, failures, restarts>>

AcknowledgeAlert(r, h) == MoveAlert(r, h, {"firing"}, "acknowledged")
ResolveAlert(r, h) == MoveAlert(r, h, {"firing", "acknowledged"}, "resolved")

MoveIncident(i, from, to, resolvedAt) ==
    /\ incident[i].status \in from
    /\ incident' = [incident EXCEPT ![i].status = to, ![i].resolvedAt = resolvedAt]
    /\ UNCHANGED <<level, hour, evaluatorVars, alert, failures, restarts>>

AcknowledgeIncident(i) ==
    MoveIncident(i, {"open"}, "acknowledged", incident[i].resolvedAt)
StartInvestigatingIncident(i) ==
    MoveIncident(i, {"acknowledged"}, "investigating", incident[i].resolvedAt)
ResolveIncident(i) == MoveIncident(i, IncidentStatuses \ {"absent", "closed"}, "resolved", TRUE)
CloseIncident(i) == MoveIncident(i, {"resolved"}, "closed", incident[i].resolvedAt)

ReopenIncident(i) == MoveIncident(i, {"resolved"}, "open", FALSE)

OperatorMoves(i) ==
    \/ AcknowledgeIncident(i)
    \/ StartInvestigatingIncident(i)
    \/ ResolveIncident(i)
    \/ CloseIncident(i)
    \/ ReopenIncident(i)

------------------------------------------------------------------------------
Emission(p) == Upsert(p) \/ LookUp(p) \/ Attach(p) \/ NoneQualifies(p) \/ Create(p)

Next ==
    \/ \E r \in Rules : Fluctuate(r)
    \/ NextHour
    \/ \E i \in Incidents : AgeOut(i)
    \/ \E p \in Replicas, r \in Rules : Judge(p, r)
    \/ \E p \in Replicas : Emission(p) \/ Fail(p) \/ Restart(p)
    \/ \E r \in Rules, h \in Hours : AcknowledgeAlert(r, h) \/ ResolveAlert(r, h)
    \/ \E i \in Incidents : OperatorMoves(i)

\* The ticker makes every evaluator judge every enabled rule on every tick,
\* and a tick runs its emissions to the end.  Nothing else has to happen.
Fairness ==
    \A p \in Replicas :
        /\ WF_vars(Emission(p))
        /\ \A r \in Rules : SF_vars(Judge(p, r))

Safety == Init /\ [][Next]_vars
Spec == Safety /\ Fairness

------------------------------------------------------------------------------
(* What the evaluators and the bridge must not do.                         *)

TypeOK ==
    /\ level \in [Rules -> BOOLEAN]
    /\ hour \in Hours
    /\ mem \in [Replicas -> [Rules -> Memory]]
    /\ streak \in [Replicas -> [Rules -> 0 .. Triggers]]
    /\ proc \in [Replicas -> Process]
    /\ alert \in [Rules -> [Hours -> Alert]]
    /\ incident \in [Incidents -> Incident]
    /\ failures \in Nat
    /\ restarts \in Nat

\* The flapping guard (evaluator.go:16-20, judgeSample): whatever an evaluator
\* is emitting as firing, it has judged Triggers breaches of the rule since
\* the last good sample, however often it was restarted in between.
FiresAfterStreak ==
    \A p \in Replicas :
        proc[p].pc # "idle" /\ proc[p].status = "firing" =>
            streak[p][proc[p].rule] = Triggers

Covers(p, r, h) ==
    /\ proc[p].pc \in {"lookup", "attach", "create"}
    /\ proc[p].rule = r
    /\ proc[p].hour = h

\* The bridge's promise (incident_bridge.go:18-30): as long as no emission was
\* cut short, a firing alert without an incident is one that some replica is
\* linking right now.
FiringIsCovered ==
    failures + restarts = 0 =>
        \A r \in Rules, h \in Hours :
            alert[r][h].status = "firing" /\ alert[r][h].incident = NoIncident =>
                \E p \in Replicas : Covers(p, r, h)

\* An alert is linked to an incident that is active at that moment, so not to
\* one an operator resolved or closed after the bridge's lookup found it.
LinksOnlyToActive ==
    [][ \A r \in Rules, h \in Hours :
            alert'[r][h].incident # alert[r][h].incident =>
                incident'[alert'[r][h].incident].status \in ActiveStatuses ]_vars

\* incidents.sql:87-90: no ghost resolved_at on an active incident, however
\* often it was resolved and reopened.
ActiveIncidentIsUnresolved ==
    \A i \in Incidents : Active(i) => ~incident[i].resolvedAt

\* A fault that persists keeps coming back to an active incident, whatever
\* operators do and in spite of the failures and restarts in between.
PersistentFaultIsTracked ==
    \A r \in Rules :
        <>[]level[r] => []<>(\/ \E i \in Incidents : alert[r][hour].incident = i /\ Active(i)
                             \/ Exhausted)

Settled(r, h) == alert[r][h].status \in {"absent", "resolved"}

\* A fault that clears for good settles the row of the hour, unless an emission
\* was cut short (evaluator.go:412-422 emits "resolved" once, and never again).
RecoverySettlesTheHour ==
    \A r \in Rules, h \in Hours :
        <>[](~level[r] /\ hour = h) =>
            <>[](Settled(r, h) \/ failures + restarts > 0 \/ Exhausted)

------------------------------------------------------------------------------
(* What a comment of the code says, and the code does not do.               *)

\* incident_bridge.go:129-132: two concurrent emits on the same asset do not
\* both decide there is no incident and each create their own.
NotBothDecideNone ==
    \A p, q \in Replicas : proc[p].pc = "create" /\ proc[q].pc = "create" => p = q
==============================================================================
