-------------------------- MODULE MonitoringProofs ---------------------------
(***************************************************************************)
(* Proofs about the monitoring side: what the alert evaluators decide,     *)
(* what the metric sources' heartbeats say, and what the live feed gives a *)
(* browser. The parts share no state: each theorem is about the            *)
(* specification of its own part.                                          *)
(***************************************************************************)
EXTENDS AlertEvaluator, MetricSources, WebSocketHub, TLAPS

------------------------------------------------------------------------------
(***************************************************************************)
(* Safety of the alert evaluators and the incident bridge, for any number  *)
(* of replicas, rules, hours, incidents, failures and restarts.            *)
(*                                                                         *)
(* FiresAfterStreak is not inductive: an emission says nothing of how the  *)
(* memory that ordered it came to be.  Remembered ties the memory to the   *)
(* samples, and it survives a restart because forgetting lowers the        *)
(* counter and never the streak.                                           *)
(***************************************************************************)

\* What an evaluator remembers, it has seen: the counter never exceeds the
\* breaches since the last good sample, and a firing rule has a full streak.
Remembered ==
    \A p \in Replicas, r \in Rules :
        /\ mem[p][r].count <= streak[p][r]
        /\ mem[p][r].firing => streak[p][r] = Triggers

IInv == TypeOK /\ Remembered /\ FiresAfterStreak /\ FiringIsCovered /\ ActiveIncidentIsUnresolved

LEMMA BumpBounds ==
    ASSUME NEW n \in 0 .. Triggers
    PROVE  /\ Bump(n) \in 0 .. Triggers
           /\ n <= Bump(n)
           /\ \A k \in 0 .. Triggers : k <= n => Bump(k) <= Bump(n)
  BY EvaluatorAssumption DEF Bump

LEMMA RestingType == Resting \in Process
<1>1. (CHOOSE r \in Rules : TRUE) \in Rules
  BY EvaluatorAssumption
<1>2. QED
  BY <1>1, EvaluatorAssumption DEF Resting, Process, Hours, Incidents

LEMMA InitIInv == Init => IInv
<1> SUFFICES ASSUME Init PROVE IInv
  OBVIOUS
<1> USE DEF Init
<1>1. TypeOK
  <2>1. proc \in [Replicas -> Process]
    BY RestingType
  <2>2. mem \in [Replicas -> [Rules -> Memory]] /\ streak \in [Replicas -> [Rules -> 0 .. Triggers]]
    BY EvaluatorAssumption DEF Memory, Forgotten
  <2>3. alert \in [Rules -> [Hours -> Alert]]
    BY DEF Alert, AlertStatuses, NoIncident
  <2>4. incident \in [Incidents -> Incident]
    BY EvaluatorAssumption DEF Incident, IncidentStatuses, Hours
  <2>5. hour \in Hours /\ level \in [Rules -> BOOLEAN] /\ failures \in Nat /\ restarts \in Nat
    BY EvaluatorAssumption DEF Hours
  <2>6. QED
    BY <2>1, <2>2, <2>3, <2>4, <2>5 DEF TypeOK
<1>2. Remembered
  BY EvaluatorAssumption DEF Remembered, Forgotten
<1>3. FiresAfterStreak
  BY DEF FiresAfterStreak, Resting
<1>4. FiringIsCovered
  BY DEF FiringIsCovered
<1>5. ActiveIncidentIsUnresolved
  BY DEF ActiveIncidentIsUnresolved, Active, ActiveStatuses
<1>6. QED
  BY <1>1, <1>2, <1>3, <1>4, <1>5 DEF IInv

------------------------------------------------------------------------------
(* One lemma for each conjunct that several kinds of action disturb.       *)

\* An action of the environment or of an operator leaves the evaluators alone.
LEMMA QuietEvaluators ==
    ASSUME IInv, UNCHANGED evaluatorVars
    PROVE  Remembered' /\ FiresAfterStreak'
  BY DEF IInv, evaluatorVars, Remembered, FiresAfterStreak

\* Going idle keeps the memory's evidence.
LEMMA RestIsQuiet ==
    ASSUME IInv, NEW p \in Replicas, Rest(p), UNCHANGED <<mem, streak>>
    PROVE  Remembered' /\ FiresAfterStreak'
<1>1. \A q \in Replicas : proc'[q] = IF q = p THEN Resting ELSE proc[q]
  BY DEF Rest, IInv, TypeOK
<1>2. Resting.pc = "idle"
  BY DEF Resting
<1>3. QED
  BY <1>1, <1>2 DEF IInv, Remembered, FiresAfterStreak

\* Moving on within an emission keeps what is being emitted.
LEMMA GotoIsQuiet ==
    ASSUME IInv, NEW p \in Replicas, ~Idle(p), NEW pc, NEW found,
           Goto(p, pc, found), UNCHANGED <<mem, streak>>
    PROVE  Remembered' /\ FiresAfterStreak'
<1>1. \A q \in Replicas : /\ proc'[q].rule = proc[q].rule
                          /\ proc'[q].status = proc[q].status
                          /\ q # p => proc'[q].pc = proc[q].pc
  BY DEF Goto, IInv, TypeOK, Process
<1>2. QED
  BY <1>1 DEF IInv, Remembered, FiresAfterStreak, Idle

\* A row that stays as it is stays covered, unless its replica moved away.
LEMMA StillCovered ==
    ASSUME IInv, UNCHANGED <<failures, restarts, alert>>,
           \A q \in Replicas, r \in Rules, h \in Hours : Covers(q, r, h) => Covers(q, r, h)'
    PROVE  FiringIsCovered'
  BY DEF IInv, FiringIsCovered

LEMMA RestType ==
    ASSUME TypeOK, NEW p \in Replicas, Rest(p)
    PROVE  proc' \in [Replicas -> Process]
  BY RestingType DEF TypeOK, Rest

LEMMA GotoType ==
    ASSUME TypeOK, NEW p \in Replicas, NEW found \in SUBSET Incidents,
           NEW pc \in {"idle", "upsert", "lookup", "attach", "create"}, Goto(p, pc, found)
    PROVE  proc' \in [Replicas -> Process]
<1> DEFINE q == [proc[p] EXCEPT !.pc = pc, !.found = found]
<1>1. proc[p] \in Process
  BY DEF TypeOK
<1>2. q \in Process
  BY <1>1 DEF Process
<1>3. proc' = [proc EXCEPT ![p] = q]
  BY DEF Goto
<1>4. QED
  BY <1>2, <1>3 DEF TypeOK

LEMMA LinkType ==
    ASSUME TypeOK, NEW p \in Replicas, NEW i \in Incidents, Link(p, i)
    PROVE  /\ alert' \in [Rules -> [Hours -> Alert]]
           /\ \A r \in Rules, h \in Hours :
                 /\ alert'[r][h].status = alert[r][h].status
                 /\ alert'[r][h].incident =
                       IF r = proc[p].rule /\ h = proc[p].hour THEN i ELSE alert[r][h].incident
<1> DEFINE x == proc[p].rule
           y == proc[p].hour
           a == [alert[x][y] EXCEPT !.incident = i]
<1>1. x \in Rules /\ y \in Hours
  BY DEF TypeOK, Process
<1>2. a \in Alert /\ a.status = alert[x][y].status /\ a.incident = i
  <2>1. alert[x][y] \in Alert
    BY <1>1 DEF TypeOK
  <2> DEFINE z == alert[x][y]
  <2> HIDE DEF x, y, z
  <2>2. z \in Alert => /\ [z EXCEPT !.incident = i] \in Alert
                       /\ [z EXCEPT !.incident = i].status = z.status
                       /\ [z EXCEPT !.incident = i].incident = i
    BY DEF Alert
  <2>3. QED
    BY <2>1, <2>2 DEF z
<1>3. alert' = [alert EXCEPT ![x] = [alert[x] EXCEPT ![y] = a]]
  BY DEF Link
<1> HIDE DEF x, y, a
<1>4. alert' \in [Rules -> [Hours -> Alert]]
  BY <1>1, <1>2, <1>3 DEF TypeOK
<1>5. \A r \in Rules, h \in Hours :
        alert'[r][h] = IF r = x /\ h = y THEN a ELSE alert[r][h]
  BY <1>1, <1>2, <1>3 DEF TypeOK
<1>6. QED
  BY <1>2, <1>4, <1>5 DEF x, y

LEMMA StatusType ==
    ASSUME TypeOK, NEW r \in Rules, NEW h \in Hours, NEW st \in AlertStatuses,
           SetStatus(r, h, st)
    PROVE  /\ alert' \in [Rules -> [Hours -> Alert]]
           /\ \A x \in Rules, y \in Hours :
                 /\ alert'[x][y].incident = alert[x][y].incident
                 /\ alert'[x][y].status = IF x = r /\ y = h THEN st ELSE alert[x][y].status
<1> DEFINE z == alert[r][h]
           a == [z EXCEPT !.status = st]
<1>1. z \in Alert
  BY DEF TypeOK
<1>2. alert' = [alert EXCEPT ![r] = [alert[r] EXCEPT ![h] = a]]
  BY DEF SetStatus
<1> HIDE DEF z
<1>3. a \in Alert /\ a.status = st /\ a.incident = z.incident
  BY <1>1 DEF Alert
<1> HIDE DEF a
<1>4. alert \in [Rules -> [Hours -> Alert]]
  BY DEF TypeOK
<1>5. alert' \in [Rules -> [Hours -> Alert]]
  BY <1>2, <1>3, <1>4
<1>6. \A x \in Rules, y \in Hours :
        alert'[x][y] = IF x = r /\ y = h THEN a ELSE alert[x][y]
  BY <1>2, <1>3, <1>4
<1>7. QED
  BY <1>3, <1>5, <1>6 DEF z

\* Writing one incident keeps the type, and the stamp rule if it keeps it there.
LEMMA IncidentType ==
    ASSUME IInv, NEW i \in Incidents, NEW v \in Incident,
           v.status \in ActiveStatuses => ~v.resolvedAt,
           incident' = [incident EXCEPT ![i] = v]
    PROVE  incident' \in [Incidents -> Incident] /\ ActiveIncidentIsUnresolved'
<1>1. incident \in [Incidents -> Incident]
  BY DEF IInv, TypeOK
<1>2. \A j \in Incidents : incident'[j] = IF j = i THEN v ELSE incident[j]
  BY <1>1
<1>3. QED
  BY <1>1, <1>2 DEF IInv, ActiveIncidentIsUnresolved, Active

------------------------------------------------------------------------------
(* The environment and the operators.                                      *)

LEMMA FluctuateStep ==
    ASSUME IInv, NEW r \in Rules, Fluctuate(r)
    PROVE  IInv'
<1>1. TypeOK'
  BY DEF IInv, TypeOK, Fluctuate, evaluatorVars
<1>2. Remembered' /\ FiresAfterStreak'
  BY QuietEvaluators DEF Fluctuate
<1>3. FiringIsCovered'
  BY StillCovered DEF Fluctuate, evaluatorVars, Covers
<1>4. ActiveIncidentIsUnresolved'
  BY DEF IInv, Fluctuate, ActiveIncidentIsUnresolved, Active
<1>5. QED
  BY <1>1, <1>2, <1>3, <1>4 DEF IInv

LEMMA NextHourStep ==
    ASSUME IInv, NextHour
    PROVE  IInv'
<1>1. TypeOK'
  <2>1. hour' \in Hours
    BY EvaluatorAssumption DEF IInv, TypeOK, NextHour, Hours
  <2>2. QED
    BY <2>1 DEF IInv, TypeOK, NextHour, evaluatorVars
<1>2. Remembered' /\ FiresAfterStreak'
  BY QuietEvaluators DEF NextHour
<1>3. FiringIsCovered'
  BY StillCovered DEF NextHour, evaluatorVars, Covers
<1>4. ActiveIncidentIsUnresolved'
  BY DEF IInv, NextHour, ActiveIncidentIsUnresolved, Active
<1>5. QED
  BY <1>1, <1>2, <1>3, <1>4 DEF IInv

LEMMA AgeOutStep ==
    ASSUME IInv, NEW i \in Incidents, AgeOut(i)
    PROVE  IInv'
<1> DEFINE z == incident[i]
           v == [z EXCEPT !.recent = FALSE]
<1>1. z \in Incident /\ (z.status \in ActiveStatuses => ~z.resolvedAt)
  BY DEF IInv, TypeOK, ActiveIncidentIsUnresolved, Active
<1>2. incident' = [incident EXCEPT ![i] = v]
  BY DEF AgeOut
<1> HIDE DEF z
<1>3. v \in Incident /\ v.status = z.status /\ v.resolvedAt = z.resolvedAt
  BY <1>1 DEF Incident
<1> HIDE DEF v
<1>4. incident' \in [Incidents -> Incident] /\ ActiveIncidentIsUnresolved'
  BY <1>1, <1>2, <1>3, IncidentType
<1>5. TypeOK'
  BY <1>4 DEF IInv, TypeOK, AgeOut, evaluatorVars
<1>6. Remembered' /\ FiresAfterStreak'
  BY QuietEvaluators DEF AgeOut
<1>7. FiringIsCovered'
  BY StillCovered DEF AgeOut, evaluatorVars, Covers
<1>8. QED
  BY <1>4, <1>5, <1>6, <1>7 DEF IInv

\* An operator moves an alert away from firing, so nothing new has to be covered.
LEMMA MoveAlertStep ==
    ASSUME IInv, NEW r \in Rules, NEW h \in Hours, NEW from,
           NEW to \in AlertStatuses \ {"firing"}, MoveAlert(r, h, from, to)
    PROVE  IInv'
<1>1. /\ alert' \in [Rules -> [Hours -> Alert]]
      /\ \A x \in Rules, y \in Hours :
            /\ alert'[x][y].incident = alert[x][y].incident
            /\ alert'[x][y].status = "firing" => alert[x][y].status = "firing"
  <2>1. SetStatus(r, h, to) /\ to \in AlertStatuses /\ TypeOK
    BY DEF IInv, MoveAlert
  <2>2. /\ alert' \in [Rules -> [Hours -> Alert]]
        /\ \A x \in Rules, y \in Hours :
              /\ alert'[x][y].incident = alert[x][y].incident
              /\ alert'[x][y].status = IF x = r /\ y = h THEN to ELSE alert[x][y].status
    BY <2>1, StatusType
  <2>3. QED
    BY <2>2
<1>2. TypeOK'
  BY <1>1 DEF IInv, TypeOK, MoveAlert, evaluatorVars
<1>3. Remembered' /\ FiresAfterStreak'
  BY QuietEvaluators DEF MoveAlert
<1>4. FiringIsCovered'
  BY <1>1 DEF IInv, FiringIsCovered, Covers, MoveAlert, evaluatorVars
<1>5. ActiveIncidentIsUnresolved'
  BY DEF IInv, MoveAlert, ActiveIncidentIsUnresolved, Active
<1>6. QED
  BY <1>2, <1>3, <1>4, <1>5 DEF IInv

\* An operator who makes an incident active clears its stamp, or found it clear.
LEMMA MoveIncidentStep ==
    ASSUME IInv, NEW i \in Incidents, NEW from, NEW to \in IncidentStatuses,
           NEW stamp \in BOOLEAN, MoveIncident(i, from, to, stamp),
           to \in ActiveStatuses => ~stamp
    PROVE  IInv'
<1> DEFINE z == incident[i]
           v == [z EXCEPT !.status = to, !.resolvedAt = stamp]
<1>1. z \in Incident
  BY DEF IInv, TypeOK
<1>2. incident' = [incident EXCEPT ![i] = v]
  BY DEF MoveIncident
<1> HIDE DEF z
<1>3. v \in Incident /\ v.status = to /\ v.resolvedAt = stamp
  BY <1>1 DEF Incident
<1> HIDE DEF v
<1>4. incident' \in [Incidents -> Incident] /\ ActiveIncidentIsUnresolved'
  BY <1>2, <1>3, IncidentType
<1>5. TypeOK'
  BY <1>4 DEF IInv, TypeOK, MoveIncident, evaluatorVars
<1>6. Remembered' /\ FiresAfterStreak'
  BY QuietEvaluators DEF MoveIncident
<1>7. FiringIsCovered'
  BY StillCovered DEF MoveIncident, evaluatorVars, Covers
<1>8. QED
  BY <1>4, <1>5, <1>6, <1>7 DEF IInv

------------------------------------------------------------------------------
(* The evaluators and the bridge.                                          *)

LEMMA JudgeStep ==
    ASSUME IInv, NEW p \in Replicas, NEW r \in Rules, Judge(p, r)
    PROVE  IInv'
<1> DEFINE m == mem[p][r]
           n == IF level[r] THEN Advance(m) ELSE Reset(m)
           k == IF level[r] THEN Bump(streak[p][r]) ELSE 0
           q == [pc |-> "upsert", rule |-> r, hour |-> hour, found |-> {},
                 status |-> IF level[r] THEN "firing" ELSE "resolved"]
<1>1. m \in Memory /\ streak[p][r] \in 0 .. Triggers /\ level[r] \in BOOLEAN /\ hour \in Hours
  BY DEF IInv, TypeOK
<1>2. n \in Memory /\ k \in 0 .. Triggers
  BY <1>1, EvaluatorAssumption, BumpBounds DEF Memory, Advance, Reset, Forgotten
<1>3. n.count <= k /\ (n.firing => k = Triggers)
  <2>1. m.count <= streak[p][r] /\ (m.firing => streak[p][r] = Triggers)
    BY DEF IInv, Remembered
  <2>2. m.count \in 0 .. Triggers
    BY <1>1 DEF Memory
  <2>3. CASE level[r]
    <3>1. Bump(m.count) <= k /\ k \in 0 .. Triggers /\ streak[p][r] <= k
      BY <1>1, <2>1, <2>2, <2>3, BumpBounds
    <3>2. n.count = Bump(m.count) /\ (n.firing => m.firing \/ Bump(m.count) = Triggers)
      BY <2>3 DEF Advance
    <3>3. QED
      BY <1>1, <2>1, <3>1, <3>2, EvaluatorAssumption
  <2>4. CASE ~level[r]
    BY <2>4 DEF Reset, Forgotten
  <2>5. QED
    BY <2>3, <2>4
<1>4. q \in Process
  BY <1>1 DEF Process
<1>5. /\ mem' = [mem EXCEPT ![p][r] = n]
      /\ streak' = [streak EXCEPT ![p][r] = k]
      /\ Idle(p)
      /\ UNCHANGED <<level, hour, alert, incident, failures, restarts>>
  BY DEF Judge
<1>6. proc' = proc \/ proc' = [proc EXCEPT ![p] = q]
  BY DEF Judge
<1>7. level[r] /\ proc' # proc => n.firing
  BY DEF Judge, Emits
<1> HIDE DEF n, k
<1>8. TypeOK'
  BY <1>2, <1>4, <1>5, <1>6 DEF IInv, TypeOK
<1>9. \A x \in Replicas, y \in Rules :
        /\ mem'[x][y] = IF x = p /\ y = r THEN n ELSE mem[x][y]
        /\ streak'[x][y] = IF x = p /\ y = r THEN k ELSE streak[x][y]
  BY <1>5 DEF IInv, TypeOK
<1>10. Remembered'
  BY <1>3, <1>9 DEF IInv, Remembered
<1>11. FiresAfterStreak'
  <2> SUFFICES ASSUME NEW x \in Replicas, proc'[x].pc # "idle", proc'[x].status = "firing"
               PROVE  streak'[x][proc'[x].rule] = Triggers
    BY DEF FiresAfterStreak
  <2>1. CASE x = p
    <3>1. proc' = [proc EXCEPT ![p] = q] /\ proc'[p] = q
      BY <1>5, <1>6, <2>1 DEF IInv, TypeOK, Idle
    <3>2. level[r] /\ q.rule = r
      BY <3>1, <2>1
    <3>3. proc' # proc
      BY <1>5, <3>1 DEF Idle
    <3>4. QED
      BY <1>3, <1>7, <1>9, <2>1, <3>1, <3>2, <3>3
  <2>2. CASE x # p
    <3>1. proc'[x] = proc[x] /\ proc[x].rule \in Rules
      BY <1>6, <2>2 DEF IInv, TypeOK, Process
    <3>2. QED
      BY <1>9, <2>2, <3>1 DEF IInv, FiresAfterStreak
  <2>3. QED
    BY <2>1, <2>2
<1>12. FiringIsCovered'
  <2>1. \A x \in Replicas : proc[x].pc # "idle" => proc'[x] = proc[x]
    BY <1>5, <1>6 DEF IInv, TypeOK, Idle
  <2>2. \A x \in Replicas, y \in Rules, h \in Hours : Covers(x, y, h) => Covers(x, y, h)'
    BY <2>1 DEF Covers
  <2>3. QED
    BY <1>5, <2>2, StillCovered
<1>13. ActiveIncidentIsUnresolved'
  BY <1>5 DEF IInv, ActiveIncidentIsUnresolved, Active
<1>14. QED
  BY <1>8, <1>10, <1>11, <1>12, <1>13 DEF IInv

\* The row an upsert leaves firing is one its replica now carries to the bridge.
LEMMA UpsertStep ==
    ASSUME IInv, NEW p \in Replicas, Upsert(p)
    PROVE  IInv'
<1> DEFINE x == proc[p].rule
           y == proc[p].hour
           st == proc[p].status
<1>1. proc[p] \in Process
  BY DEF IInv, TypeOK
<1>2. x \in Rules /\ y \in Hours /\ st \in {"firing", "resolved"}
  BY <1>1 DEF Process
<1>3. SetStatus(x, y, st) /\ proc[p].pc = "upsert"
  BY DEF Upsert
<1>4. /\ alert' \in [Rules -> [Hours -> Alert]]
      /\ \A r \in Rules, h \in Hours :
            /\ alert'[r][h].incident = alert[r][h].incident
            /\ alert'[r][h].status = IF r = x /\ h = y THEN st ELSE alert[r][h].status
  BY <1>2, <1>3, StatusType DEF IInv, AlertStatuses
<1>5. proc' \in [Replicas -> Process] /\ Remembered' /\ FiresAfterStreak'
  <2>1. CASE Bridged(p)
    BY <2>1, <1>3, GotoType, GotoIsQuiet DEF Upsert, IInv, Idle
  <2>2. CASE ~Bridged(p)
    BY <2>2, RestType, RestIsQuiet DEF Upsert, IInv
  <2>3. QED
    BY <2>1, <2>2
<1>6. TypeOK'
  BY <1>4, <1>5 DEF IInv, TypeOK, Upsert
<1>7. FiringIsCovered'
  <2>1. \A q \in Replicas : q # p => proc'[q] = proc[q]
    BY DEF Upsert, Goto, Rest, IInv, TypeOK
  <2>2. \A q \in Replicas, r \in Rules, h \in Hours : Covers(q, r, h) => Covers(q, r, h)'
    BY <1>3, <2>1 DEF Covers
  <2>3. ASSUME st = "firing"
        PROVE  proc'[p].pc = "lookup" /\ proc'[p].rule = x /\ proc'[p].hour = y
    <3>1. proc' = [proc EXCEPT ![p].pc = "lookup", ![p].found = {}]
      BY <2>3 DEF Upsert, Bridged, Goto
    <3>2. QED
      BY <1>1, <3>1 DEF IInv, TypeOK, Process
  <2>4. UNCHANGED <<failures, restarts>>
    BY DEF Upsert
  <2> SUFFICES ASSUME failures + restarts = 0, NEW r \in Rules, NEW h \in Hours,
                      alert'[r][h].status = "firing", alert'[r][h].incident = NoIncident
               PROVE  \E q \in Replicas : Covers(q, r, h)'
    BY <2>4 DEF FiringIsCovered
  <2>5. CASE r = x /\ h = y
    BY <1>4, <2>3, <2>5 DEF Covers
  <2>6. CASE ~(r = x /\ h = y)
    <3>1. alert[r][h].status = "firing" /\ alert[r][h].incident = NoIncident
      BY <1>4, <2>6
    <3>2. PICK q \in Replicas : Covers(q, r, h)
      BY <3>1 DEF IInv, FiringIsCovered
    <3>3. QED
      BY <2>2, <3>2
  <2>7. QED
    BY <2>5, <2>6
<1>8. ActiveIncidentIsUnresolved'
  BY DEF IInv, Upsert, ActiveIncidentIsUnresolved, Active
<1>9. QED
  BY <1>5, <1>6, <1>7, <1>8 DEF IInv

\* Moving from one bridge step to the next covers the same row.
LEMMA BridgeMove ==
    ASSUME IInv, NEW p \in Replicas, proc[p].pc \in {"lookup", "attach"},
           NEW pc \in {"attach", "create"}, NEW found \in SUBSET Incidents, Goto(p, pc, found),
           UNCHANGED <<level, hour, mem, streak, alert, incident, failures, restarts>>
    PROVE  IInv'
<1>1. proc' \in [Replicas -> Process]
  BY GotoType DEF IInv
<1>2. TypeOK'
  BY <1>1 DEF IInv, TypeOK
<1>3. Remembered' /\ FiresAfterStreak'
  BY GotoIsQuiet DEF Idle
<1>4. FiringIsCovered'
  <2>1. \A q \in Replicas : /\ proc'[q].rule = proc[q].rule
                            /\ proc'[q].hour = proc[q].hour
                            /\ proc'[q].pc = IF q = p THEN pc ELSE proc[q].pc
    BY DEF Goto, IInv, TypeOK, Process
  <2>2. \A q \in Replicas, r \in Rules, h \in Hours : Covers(q, r, h) => Covers(q, r, h)'
    BY <2>1 DEF Covers
  <2>3. QED
    BY <2>2, StillCovered
<1>5. ActiveIncidentIsUnresolved'
  BY DEF IInv, ActiveIncidentIsUnresolved, Active
<1>6. QED
  BY <1>2, <1>3, <1>4, <1>5 DEF IInv

LEMMA LookUpStep ==
    ASSUME IInv, NEW p \in Replicas, LookUp(p)
    PROVE  IInv'
<1> DEFINE found == {i \in Incidents : Active(i) /\ incident[i].recent}
<1>1. CASE found = {}
  BY <1>1, BridgeMove DEF LookUp
<1>2. CASE found # {}
  BY <1>2, BridgeMove DEF LookUp
<1>3. QED
  BY <1>1, <1>2

LEMMA NoneQualifiesStep ==
    ASSUME IInv, NEW p \in Replicas, NoneQualifies(p)
    PROVE  IInv'
  BY BridgeMove DEF NoneQualifies

\* A linked row needs no cover; the other rows keep theirs.
LEMMA LinkStep ==
    ASSUME IInv, NEW p \in Replicas, proc[p].pc \in {"attach", "create"},
           NEW i \in Incidents, Link(p, i), Rest(p),
           UNCHANGED <<level, hour, mem, streak, failures, restarts>>,
           incident' \in [Incidents -> Incident], ActiveIncidentIsUnresolved'
    PROVE  IInv'
<1>1. /\ alert' \in [Rules -> [Hours -> Alert]]
      /\ \A r \in Rules, h \in Hours :
            /\ alert'[r][h].status = alert[r][h].status
            /\ alert'[r][h].incident =
                  IF r = proc[p].rule /\ h = proc[p].hour THEN i ELSE alert[r][h].incident
  BY LinkType DEF IInv
<1>2. proc' \in [Replicas -> Process]
  BY RestType DEF IInv
<1>3. TypeOK'
  BY <1>1, <1>2 DEF IInv, TypeOK
<1>4. Remembered' /\ FiresAfterStreak'
  BY RestIsQuiet
<1>5. FiringIsCovered'
  <2> SUFFICES ASSUME failures + restarts = 0, NEW r \in Rules, NEW h \in Hours,
                      alert'[r][h].status = "firing", alert'[r][h].incident = NoIncident
               PROVE  \E q \in Replicas : Covers(q, r, h)'
    BY DEF FiringIsCovered
  <2>1. i # NoIncident
    BY EvaluatorAssumption DEF Incidents, NoIncident
  <2>2. ~(r = proc[p].rule /\ h = proc[p].hour)
    BY <1>1, <2>1
  <2>3. alert[r][h].status = "firing" /\ alert[r][h].incident = NoIncident
    BY <1>1, <2>2
  <2>4. PICK q \in Replicas : Covers(q, r, h)
    BY <2>3 DEF IInv, FiringIsCovered
  <2>5. proc'[q] = proc[q]
    BY <2>2, <2>4 DEF Covers, Rest, IInv, TypeOK
  <2>6. QED
    BY <2>4, <2>5 DEF Covers
<1>6. QED
  BY <1>3, <1>4, <1>5 DEF IInv

LEMMA AttachStep ==
    ASSUME IInv, NEW p \in Replicas, Attach(p)
    PROVE  IInv'
<1>1. PICK i \in Qualifying(p) : Link(p, i)
  BY DEF Attach
<1>2. i \in Incidents
  BY DEF Qualifying, IInv, TypeOK, Process
<1>3. incident' \in [Incidents -> Incident] /\ ActiveIncidentIsUnresolved'
  BY DEF Attach, IInv, TypeOK, ActiveIncidentIsUnresolved, Active
<1>4. QED
  BY <1>1, <1>2, <1>3, LinkStep DEF Attach

LEMMA CreateStep ==
    ASSUME IInv, NEW p \in Replicas, Create(p)
    PROVE  IInv'
<1> DEFINE v == [status |-> "open", resolvedAt |-> FALSE, recent |-> TRUE, hour |-> hour]
<1>1. PICK i \in Incidents : Link(p, i) /\ incident' = [incident EXCEPT ![i] = v]
  BY DEF Create
<1>2. v \in Incident /\ ~v.resolvedAt
  BY DEF IInv, TypeOK, Incident, IncidentStatuses, ActiveStatuses
<1>3. incident' \in [Incidents -> Incident] /\ ActiveIncidentIsUnresolved'
  BY <1>1, <1>2, IncidentType
<1>4. QED
  BY <1>1, <1>3, LinkStep DEF Create

\* After the first failure or restart nothing is promised of links.
LEMMA FailStep ==
    ASSUME IInv, NEW p \in Replicas, Fail(p)
    PROVE  IInv'
<1>1. proc' \in [Replicas -> Process] /\ failures' \in Nat /\ failures' + restarts' # 0
  BY RestType DEF Fail, IInv, TypeOK
<1>2. TypeOK'
  BY <1>1 DEF Fail, IInv, TypeOK
<1>3. Remembered' /\ FiresAfterStreak'
  BY RestIsQuiet DEF Fail
<1>4. FiringIsCovered' /\ ActiveIncidentIsUnresolved'
  BY <1>1 DEF Fail, IInv, FiringIsCovered, ActiveIncidentIsUnresolved, Active
<1>5. QED
  BY <1>2, <1>3, <1>4 DEF IInv

LEMMA RestartStep ==
    ASSUME IInv, NEW p \in Replicas, Restart(p)
    PROVE  IInv'
<1> DEFINE forgot == [r \in Rules |-> Forgotten]
<1>1. proc' \in [Replicas -> Process] /\ restarts' \in Nat /\ failures' + restarts' # 0
  BY RestType DEF Restart, IInv, TypeOK
<1>2. forgot \in [Rules -> Memory]
  BY EvaluatorAssumption DEF Memory, Forgotten
<1>3. mem' = [mem EXCEPT ![p] = forgot]
  BY DEF Restart
<1>4. TypeOK'
  BY <1>1, <1>2, <1>3 DEF Restart, IInv, TypeOK
<1>5. Remembered'
  <2>1. \A q \in Replicas : mem'[q] = IF q = p THEN forgot ELSE mem[q]
    BY <1>3 DEF IInv, TypeOK
  <2>2. \A q \in Replicas, r \in Rules : streak[q][r] \in 0 .. Triggers
    BY DEF IInv, TypeOK
  <2>3. streak' = streak
    BY DEF Restart
  <2>4. \A r \in Rules : forgot[r].count = 0 /\ ~forgot[r].firing
    BY DEF Forgotten
  <2> HIDE DEF forgot
  <2>5. QED
    BY <2>1, <2>2, <2>3, <2>4, EvaluatorAssumption DEF IInv, Remembered
<1>6. FiresAfterStreak'
  <2>1. \A q \in Replicas : proc'[q] = IF q = p THEN Resting ELSE proc[q]
    BY DEF Restart, Rest, IInv, TypeOK
  <2>2. Resting.pc = "idle" /\ streak' = streak
    BY DEF Resting, Restart
  <2>3. QED
    BY <2>1, <2>2 DEF IInv, FiresAfterStreak
<1>7. FiringIsCovered' /\ ActiveIncidentIsUnresolved'
  BY <1>1 DEF Restart, IInv, FiringIsCovered, ActiveIncidentIsUnresolved, Active
<1>8. QED
  BY <1>4, <1>5, <1>6, <1>7 DEF IInv

------------------------------------------------------------------------------
LEMMA OperatorStep ==
    ASSUME IInv, NEW i \in Incidents, OperatorMoves(i)
    PROVE  IInv'
<1>1. incident[i].resolvedAt \in BOOLEAN
  BY DEF IInv, TypeOK, Incident
<1>2. Active(i) => ~incident[i].resolvedAt
  BY DEF IInv, ActiveIncidentIsUnresolved
<1>3. CASE AcknowledgeIncident(i)
  <2>1. ~incident[i].resolvedAt
    BY <1>2, <1>3 DEF AcknowledgeIncident, MoveIncident, Active, ActiveStatuses
  <2>2. QED
    BY <1>1, <1>3, <2>1, MoveIncidentStep DEF AcknowledgeIncident, IncidentStatuses, ActiveStatuses
<1>4. CASE StartInvestigatingIncident(i)
  <2>1. ~incident[i].resolvedAt
    BY <1>2, <1>4 DEF StartInvestigatingIncident, MoveIncident, Active, ActiveStatuses
  <2>2. QED
    BY <1>1, <1>4, <2>1, MoveIncidentStep
       DEF StartInvestigatingIncident, IncidentStatuses, ActiveStatuses
<1>5. CASE ResolveIncident(i)
  BY <1>5, MoveIncidentStep DEF ResolveIncident, IncidentStatuses, ActiveStatuses
<1>6. CASE CloseIncident(i)
  BY <1>1, <1>6, MoveIncidentStep DEF CloseIncident, IncidentStatuses, ActiveStatuses
<1>7. CASE ReopenIncident(i)
  BY <1>7, MoveIncidentStep DEF ReopenIncident, IncidentStatuses, ActiveStatuses
<1>8. QED
  BY <1>3, <1>4, <1>5, <1>6, <1>7 DEF OperatorMoves

LEMMA AlertOperatorStep ==
    ASSUME IInv, NEW r \in Rules, NEW h \in Hours, AcknowledgeAlert(r, h) \/ ResolveAlert(r, h)
    PROVE  IInv'
  BY MoveAlertStep DEF AcknowledgeAlert, ResolveAlert, AlertStatuses

LEMMA NextIInv == IInv /\ [Next]_vars => IInv'
<1> SUFFICES ASSUME IInv, [Next]_vars PROVE IInv'
  OBVIOUS
<1>1. ASSUME NEW r \in Rules, Fluctuate(r) PROVE IInv'
  BY <1>1, FluctuateStep
<1>2. CASE NextHour
  BY <1>2, NextHourStep
<1>3. ASSUME NEW i \in Incidents, AgeOut(i) PROVE IInv'
  BY <1>3, AgeOutStep
<1>4. ASSUME NEW p \in Replicas, NEW r \in Rules, Judge(p, r) PROVE IInv'
  BY <1>4, JudgeStep
<1>5. ASSUME NEW p \in Replicas, Emission(p) PROVE IInv'
  BY <1>5, UpsertStep, LookUpStep, AttachStep, NoneQualifiesStep, CreateStep DEF Emission
<1>6. ASSUME NEW p \in Replicas, Fail(p) \/ Restart(p) PROVE IInv'
  BY <1>6, FailStep, RestartStep
<1>7. ASSUME NEW r \in Rules, NEW h \in Hours, AcknowledgeAlert(r, h) \/ ResolveAlert(r, h)
      PROVE  IInv'
  BY <1>7, AlertOperatorStep
<1>8. ASSUME NEW i \in Incidents, OperatorMoves(i) PROVE IInv'
  BY <1>8, OperatorStep
<1>9. CASE UNCHANGED vars
  <2>1. Remembered' /\ FiresAfterStreak'
    <3>1. UNCHANGED evaluatorVars
      BY <1>9 DEF vars, evaluatorVars
    <3>2. QED
      BY <3>1, QuietEvaluators
  <2>2. TypeOK' /\ FiringIsCovered' /\ ActiveIncidentIsUnresolved'
    BY <1>9 DEF IInv, vars, evaluatorVars, TypeOK, FiringIsCovered, Covers,
                ActiveIncidentIsUnresolved, Active
  <2>3. QED
    BY <2>1, <2>2 DEF IInv
<1>10. QED
  BY <1>1, <1>2, <1>3, <1>4, <1>5, <1>6, <1>7, <1>8, <1>9 DEF Next

LEMMA Invariance == Safety => []IInv
<1>1. QED
  BY InitIInv, NextIInv, PTL DEF Safety

\* Every variable keeps its type; a counter never passes Triggers.
THEOREM TypeCorrect == Safety => []TypeOK
<1>1. IInv => TypeOK
  BY DEF IInv
<1>2. QED
  BY <1>1, Invariance, PTL

\* The flapping guard of the evaluator: nothing is emitted as firing without
\* Triggers breaches since the last good sample, over any restarts.
THEOREM FlappingGuard == Safety => []FiresAfterStreak
<1>1. IInv => FiresAfterStreak
  BY DEF IInv
<1>2. QED
  BY <1>1, Invariance, PTL

\* The bridge: without failures and restarts, a firing alert is linked to an
\* incident or being linked, with any number of replicas and operators.
THEOREM BridgeCoversFiring == Safety => []FiringIsCovered
<1>1. IInv => FiringIsCovered
  BY DEF IInv
<1>2. QED
  BY <1>1, Invariance, PTL

\* No active incident carries resolved_at (incidents.sql, ReopenIncident).
THEOREM NoGhostResolution == Safety => []ActiveIncidentIsUnresolved
<1>1. IInv => ActiveIncidentIsUnresolved
  BY DEF IInv
<1>2. QED
  BY <1>1, Invariance, PTL

------------------------------------------------------------------------------
(* The action property of the bridge's row lock.                           *)

LinksOnlyToActiveStep ==
    \A r \in Rules, h \in Hours :
        alert'[r][h].incident # alert[r][h].incident =>
            incident'[alert'[r][h].incident].status \in ActiveStatuses

LEMMA LinkIsActive ==
    ASSUME IInv, [Next]_vars
    PROVE  LinksOnlyToActiveStep
<1>1. ASSUME NEW p \in Replicas, NEW i \in Incidents, Link(p, i),
             incident'[i].status \in ActiveStatuses
      PROVE  LinksOnlyToActiveStep
  <2>1. \A r \in Rules, h \in Hours :
          alert'[r][h].incident =
              IF r = proc[p].rule /\ h = proc[p].hour THEN i ELSE alert[r][h].incident
    BY <1>1, LinkType DEF IInv
  <2>2. QED
    BY <1>1, <2>1 DEF LinksOnlyToActiveStep
<1>2. ASSUME NEW p \in Replicas, Attach(p) PROVE LinksOnlyToActiveStep
  <2>1. PICK i \in Qualifying(p) : Link(p, i)
    BY <1>2 DEF Attach
  <2>2. i \in Incidents /\ Active(i) /\ incident' = incident
    BY <1>2 DEF Attach, Qualifying, IInv, TypeOK, Process
  <2>3. QED
    BY <1>1, <2>1, <2>2 DEF Active
<1>3. ASSUME NEW p \in Replicas, Create(p) PROVE LinksOnlyToActiveStep
  <2> DEFINE v == [status |-> "open", resolvedAt |-> FALSE, recent |-> TRUE, hour |-> hour]
  <2>1. PICK i \in Incidents : Link(p, i) /\ incident' = [incident EXCEPT ![i] = v]
    BY <1>3 DEF Create
  <2>2. incident'[i].status \in ActiveStatuses
    BY <2>1 DEF IInv, TypeOK, ActiveStatuses
  <2>3. QED
    BY <1>1, <2>1, <2>2
<1>4. ASSUME NEW r \in Rules, NEW h \in Hours, NEW st \in AlertStatuses, SetStatus(r, h, st)
      PROVE  LinksOnlyToActiveStep
  BY <1>4, StatusType DEF IInv, LinksOnlyToActiveStep
<1>5. ASSUME NEW p \in Replicas, Upsert(p) PROVE LinksOnlyToActiveStep
  <2>1. /\ proc[p].rule \in Rules
        /\ proc[p].hour \in Hours
        /\ proc[p].status \in AlertStatuses
    BY DEF IInv, TypeOK, Process, AlertStatuses
  <2>2. QED
    BY <1>4, <1>5, <2>1 DEF Upsert
<1>6. ASSUME NEW r \in Rules, NEW h \in Hours, AcknowledgeAlert(r, h) \/ ResolveAlert(r, h)
      PROVE  LinksOnlyToActiveStep
  BY <1>4, <1>6 DEF AcknowledgeAlert, ResolveAlert, MoveAlert, AlertStatuses
<1>7. CASE UNCHANGED alert
  BY <1>7 DEF LinksOnlyToActiveStep
<1>8. QED
  BY <1>2, <1>3, <1>5, <1>6, <1>7
     DEF Next, Emission, vars, Fluctuate, NextHour, AgeOut, Judge, LookUp, NoneQualifies,
         Fail, Restart, OperatorMoves, MoveIncident, AcknowledgeIncident, StartInvestigatingIncident,
         ResolveIncident, CloseIncident, ReopenIncident

\* FOR UPDATE in linkOrCreate: an alert is never linked to an incident that an
\* operator has resolved or closed by then.
THEOREM LinksAreActive == Safety => LinksOnlyToActive
<1>1. IInv /\ [Next]_vars => [LinksOnlyToActiveStep]_vars
  BY LinkIsActive
<1>2. QED
  BY <1>1, Invariance, PTL DEF Safety, LinksOnlyToActive, LinksOnlyToActiveStep

------------------------------------------------------------------------------
(***************************************************************************)
(* The heartbeats of the metric sources, for any sources, intervals,       *)
(* losses and failures.                                                    *)
(*                                                                         *)
(* SourceInv ties the row to the agent it hears from: for an agent that    *)
(* keeps its interval, the beats it has missed say when it is due next,    *)
(* and so for how long the row has been silent (SilenceIsCounted); a beat  *)
(* that is due is never past (InTime); and the samples of the row are      *)
(* those its agent knows to have been stored and those it was not told     *)
(* of.                                                                     *)
(***************************************************************************)

SourceRow == [name : SourceNames, status : {"active", "disabled"}, interval : Intervals,
              beat : Nat \cup {Never}, samples : Nat]
AgentRow == [due : Nat \cup {Never}, missed : Nat, changed : BOOLEAN, told : Nat, untold : Nat]

SourceTypeOK ==
    /\ DOMAIN sources \subseteq SourceIds
    /\ \A i \in DOMAIN sources : sources[i] \in SourceRow
    /\ agent \in [SourceIds -> AgentRow]
    /\ tick \in Nat

\* The next beat of a registered source is still to come, and its last one is past.
InTime(i) ==
    /\ agent[i].due \in Nat /\ tick <= agent[i].due
    /\ sources[i].beat \in Nat => sources[i].beat <= tick

\* A source that keeps its interval: how many beats it has missed says how long it has been
\* silent, and when it is due.  With none missed it may be at its turn still, unanswered.
SilenceIsCounted(i) ==
    LET s == sources[i]
        g == agent[i]
    IN
    s.beat \in Nat /\ ~g.changed =>
        /\ g.missed = 0 => g.due = s.beat + s.interval \/ (g.due = s.beat /\ tick = s.beat)
        /\ g.missed = 1 => g.due = s.beat + 2 * s.interval
        /\ g.missed = 2 => g.due = s.beat + 3 * s.interval
        /\ g.missed >= 3 => tick >= s.beat + 3 * s.interval

SourceOK(i) == InTime(i) /\ SilenceIsCounted(i) /\ sources[i].samples = agent[i].told + agent[i].untold

SourceInv == SourceTypeOK /\ \A i \in DOMAIN sources : SourceOK(i)

\* A step at one source, the clock standing still, leaves the others as they are.
LEMMA OneSourceStep ==
    ASSUME SourceInv, NEW i \in SourceIds, tick' = tick, agent' \in [SourceIds -> AgentRow],
           DOMAIN sources' \subseteq DOMAIN sources \cup {i},
           \A j \in DOMAIN sources' \ {i} : sources'[j] = sources[j] /\ agent'[j] = agent[j],
           i \in DOMAIN sources' => SourceOK(i)' /\ sources'[i] \in SourceRow
    PROVE  SourceInv'
<1>1. \A j \in DOMAIN sources' \ {i} : SourceOK(j)'
  BY DEF SourceInv, SourceOK, InTime, SilenceIsCounted
<1>2. SourceTypeOK'
  BY DEF SourceInv, SourceTypeOK
<1>3. QED
  BY <1>1, <1>2 DEF SourceInv

\* What is known of a source and its agent between their steps.
LEMMA SourceFacts ==
    ASSUME SourceInv, NEW i \in DOMAIN sources
    PROVE  /\ i \in SourceIds /\ SourceOK(i) /\ sources[i] \in SourceRow /\ agent[i] \in AgentRow
           /\ sources[i].interval \in Nat \ {0} /\ sources[i].samples \in Nat
           /\ sources[i].beat \in Nat \cup {Never} /\ tick \in Nat
           /\ agent[i].missed \in Nat /\ agent[i].told \in Nat /\ agent[i].untold \in Nat
           /\ agent[i].due \in Nat \cup {Never} /\ agent[i].changed \in BOOLEAN
<1>1. i \in SourceIds /\ SourceOK(i) /\ sources[i] \in SourceRow /\ agent[i] \in AgentRow /\ tick \in Nat
  BY DEF SourceInv, SourceTypeOK
<1>2. QED
  BY <1>1, SourcesAssumption DEF SourceRow, AgentRow

\* What the UPDATE of a heartbeat does to the registry.
BeatIsStored(i) ==
    /\ DOMAIN sources' = DOMAIN sources /\ sources'[i] \in SourceRow
    /\ \A j \in DOMAIN sources \ {i} : sources'[j] = sources[j]
    /\ sources'[i].beat = tick /\ sources'[i].interval = sources[i].interval
    /\ sources'[i].samples = sources[i].samples + 1

\* A beat that arrives is stored, and clears what was missed.
LEMMA BeatStores ==
    ASSUME SourceInv, NEW i \in DOMAIN sources, HeartbeatMetricSource(i, 1)
    PROVE  BeatIsStored(i)
<1> DEFINE u == [sources[i] EXCEPT !.beat = tick]
           v == [u EXCEPT !.samples = u.samples + 1]
<1>1. sources[i] \in SourceRow /\ tick \in Nat /\ sources[i].samples \in Nat
  BY SourceFacts
<1>2. u \in SourceRow /\ u.beat = tick /\ u.interval = sources[i].interval /\ u.samples = sources[i].samples
  BY <1>1 DEF SourceRow
<1>3. sources' = [sources EXCEPT ![i] = v]
  <2>1. sources' = [sources EXCEPT ![i].beat = tick, ![i].samples = @ + 1]
    BY DEF HeartbeatMetricSource
  <2>2. QED
    BY <2>1
<1>4. v \in SourceRow /\ v.beat = u.beat /\ v.interval = u.interval /\ v.samples = u.samples + 1
  <2>1. v = [u EXCEPT !.samples = u.samples + 1] /\ u.samples + 1 \in Nat
    BY <1>1, <1>2
  <2> HIDE DEF u, v
  <2>2. QED
    BY <1>2, <2>1 DEF SourceRow
<1> HIDE DEF u, v
<1>5. QED
  BY <1>1, <1>2, <1>3, <1>4 DEF BeatIsStored

\* Every step keeps what is known of each source.
LEMMA SourceStep ==
    ASSUME SourceInv, [SourceNext]_sourceVars
    PROVE  SourceInv'
<1>1. ASSUME NEW i \in SourceIds, NEW name \in SourceNames, NEW n \in Intervals,
             NEW status \in {"active", "disabled"}, CreateMetricSource(i, name, n, status)
      PROVE  SourceInv'
  <2> DEFINE s == [name |-> name, status |-> status, interval |-> n, beat |-> Never, samples |-> 0]
  <2>1. /\ i \notin DOMAIN sources /\ agent[i] = NoAgent /\ tick' = tick
        /\ sources' = [j \in DOMAIN sources \cup {i} |-> IF j = i THEN s ELSE sources[j]]
        /\ agent' = [agent EXCEPT ![i].due = tick + n]
    BY <1>1 DEF CreateMetricSource, Registered
  <2>2. tick \in Nat /\ n \in Nat \ {0} /\ agent \in [SourceIds -> AgentRow]
    BY SourcesAssumption DEF SourceInv, SourceTypeOK
  <2>3. /\ agent' \in [SourceIds -> AgentRow] /\ \A j \in SourceIds \ {i} : agent'[j] = agent[j]
        /\ agent'[i].due = tick + n /\ agent'[i].told = 0 /\ agent'[i].untold = 0
    <3> DEFINE g == [agent[i] EXCEPT !.due = tick + n]
    <3>1. agent' = [agent EXCEPT ![i] = g]
      BY <2>1
    <3>2. agent[i] \in AgentRow /\ tick + n \in Nat
      BY <2>1, <2>2
    <3>3. agent[i].told = 0 /\ agent[i].untold = 0
      BY <2>1 DEF NoAgent
    <3>4. g \in AgentRow /\ g.due = tick + n /\ g.told = 0 /\ g.untold = 0
      BY <3>2, <3>3 DEF AgentRow
    <3> HIDE DEF g
    <3>5. QED
      BY <2>2, <3>1, <3>4
  <2>4. s \in SourceRow /\ s.beat = Never /\ s.samples = 0
    BY DEF SourceRow
  <2> HIDE DEF s
  <2>5. SourceOK(i)'
    BY <2>1, <2>2, <2>3, <2>4, SourcesAssumption DEF SourceOK, InTime, SilenceIsCounted
  <2>6. DOMAIN sources \subseteq SourceIds
    BY DEF SourceInv, SourceTypeOK
  <2>7. QED
    BY <2>1, <2>3, <2>4, <2>5, <2>6, OneSourceStep
<1>2. ASSUME NEW i \in SourceIds, NEW name \in SourceNames, NEW n \in Intervals,
             NEW status \in {"active", "disabled"}, UpdateMetricSource(i, name, n, status)
      PROVE  SourceInv'
  <2>1. /\ i \in DOMAIN sources /\ tick' = tick
        /\ sources' = [sources EXCEPT ![i].name = name, ![i].interval = n, ![i].status = status]
        /\ agent' = [agent EXCEPT ![i].changed = agent[i].changed \/ n # sources[i].interval]
    BY <1>2 DEF UpdateMetricSource, Registered
  <2>2. /\ SourceOK(i) /\ sources[i] \in SourceRow /\ agent[i] \in AgentRow
        /\ sources[i].beat \in Nat \cup {Never} /\ tick \in Nat
    BY <2>1, SourceFacts
  <2>3. /\ sources' \in [DOMAIN sources -> SourceRow] /\ \A j \in DOMAIN sources \ {i} : sources'[j] = sources[j]
        /\ sources'[i].interval = n /\ sources'[i].beat = sources[i].beat
        /\ sources'[i].samples = sources[i].samples
    <3> DEFINE u == [[sources[i] EXCEPT !.name = name] EXCEPT !.interval = n]
    <3>1. u \in SourceRow /\ u.interval = n /\ u.beat = sources[i].beat /\ u.samples = sources[i].samples
      BY <2>2 DEF SourceRow
    <3>2. sources' = [sources EXCEPT ![i] = [u EXCEPT !.status = status]]
      BY <2>1
    <3> HIDE DEF u
    <3>3. /\ [u EXCEPT !.status = status] \in SourceRow
          /\ [u EXCEPT !.status = status].interval = u.interval /\ [u EXCEPT !.status = status].beat = u.beat
          /\ [u EXCEPT !.status = status].samples = u.samples
      BY <3>1 DEF SourceRow
    <3>4. QED
      BY <2>1, <3>1, <3>2, <3>3 DEF SourceInv, SourceTypeOK
  <2>4. /\ agent' \in [SourceIds -> AgentRow] /\ \A j \in SourceIds \ {i} : agent'[j] = agent[j]
        /\ agent'[i] = [agent[i] EXCEPT !.changed = agent[i].changed \/ n # sources[i].interval]
    BY <2>1, <2>2 DEF AgentRow, SourceInv, SourceTypeOK
  <2>5. /\ agent'[i].due = agent[i].due /\ agent'[i].missed = agent[i].missed
        /\ agent'[i].told = agent[i].told /\ agent'[i].untold = agent[i].untold
        /\ ~agent'[i].changed => ~agent[i].changed /\ n = sources[i].interval
    BY <2>2, <2>4 DEF AgentRow
  <2>6. SourceOK(i)'
    BY <2>1, <2>2, <2>3, <2>5 DEF SourceOK, InTime, SilenceIsCounted
  <2>7. QED
    BY <2>1, <2>3, <2>4, <2>6, OneSourceStep DEF SourceInv, SourceTypeOK
<1>3. ASSUME NEW i \in SourceIds, DeleteMetricSource(i)
      PROVE  SourceInv'
  <2>1. /\ tick' = tick /\ sources' = [j \in DOMAIN sources \ {i} |-> sources[j]]
        /\ agent' = [agent EXCEPT ![i].due = Never]
    BY <1>3 DEF DeleteMetricSource, Registered
  <2>2. agent' \in [SourceIds -> AgentRow] /\ \A j \in SourceIds \ {i} : agent'[j] = agent[j]
    BY <2>1 DEF SourceInv, SourceTypeOK, AgentRow
  <2>3. QED
    BY <2>1, <2>2, OneSourceStep DEF SourceInv, SourceTypeOK
<1>4. ASSUME NEW i \in SourceIds, Heartbeat(i)
      PROVE  SourceInv'
  <2> DEFINE g == [due |-> tick + sources[i].interval, missed |-> 0, changed |-> FALSE,
                   told |-> agent[i].told + 1, untold |-> agent[i].untold]
  <2>1. /\ i \in DOMAIN sources /\ tick' = tick /\ HeartbeatMetricSource(i, 1)
        /\ agent' = [agent EXCEPT ![i] = g]
    BY <1>4 DEF Heartbeat, Registered
  <2>2. /\ i \in SourceIds /\ SourceOK(i) /\ sources[i] \in SourceRow /\ agent[i] \in AgentRow
        /\ sources[i].interval \in Nat \ {0} /\ sources[i].samples \in Nat /\ tick \in Nat
        /\ agent[i].told \in Nat /\ agent[i].untold \in Nat
    BY <2>1, SourceFacts
  <2>3. BeatIsStored(i)
    BY <2>1, BeatStores
  <2>4. g \in AgentRow /\ g.due = tick + sources[i].interval /\ g.missed = 0
        /\ g.told = agent[i].told + 1 /\ g.untold = agent[i].untold
    BY <2>2 DEF AgentRow
  <2> HIDE DEF g
  <2>5. agent' \in [SourceIds -> AgentRow] /\ \A j \in SourceIds \ {i} : agent'[j] = agent[j]
        /\ agent'[i] = g
    BY <2>1, <2>2, <2>4 DEF SourceInv, SourceTypeOK
  <2>6. SourceOK(i)'
    BY <2>1, <2>2, <2>3, <2>4, <2>5 DEF SourceOK, InTime, SilenceIsCounted, BeatIsStored
  <2>7. QED
    BY <2>1, <2>3, <2>5, <2>6, OneSourceStep DEF SourceInv, SourceTypeOK, BeatIsStored
<1>5. ASSUME NEW i \in SourceIds, HeartbeatUnanswered(i)
      PROVE  SourceInv'
  <2> DEFINE h == [[agent[i] EXCEPT !.missed = 0] EXCEPT !.changed = FALSE]
             g == [h EXCEPT !.untold = agent[i].untold + 1]
  <2>1. /\ i \in DOMAIN sources /\ tick' = tick /\ HeartbeatMetricSource(i, 1) /\ agent[i].due = tick
        /\ agent' = [agent EXCEPT ![i].missed = 0, ![i].changed = FALSE, ![i].untold = agent[i].untold + 1]
    BY <1>5 DEF HeartbeatUnanswered, Registered
  <2>2. /\ i \in SourceIds /\ SourceOK(i) /\ sources[i] \in SourceRow /\ agent[i] \in AgentRow
        /\ sources[i].interval \in Nat \ {0} /\ sources[i].samples \in Nat /\ tick \in Nat
        /\ agent[i].told \in Nat /\ agent[i].untold \in Nat
    BY <2>1, SourceFacts
  <2>3. BeatIsStored(i)
    BY <2>1, BeatStores
  <2>4. g \in AgentRow /\ g.due = agent[i].due /\ g.missed = 0
        /\ g.told = agent[i].told /\ g.untold = agent[i].untold + 1
    <3> DEFINE k == [agent[i] EXCEPT !.missed = 0]
    <3>1. k \in AgentRow /\ k.due = agent[i].due /\ k.missed = 0 /\ k.told = agent[i].told
      BY <2>2 DEF AgentRow
    <3>2. h = [k EXCEPT !.changed = FALSE]
      OBVIOUS
    <3> HIDE DEF k, h
    <3>3. h \in AgentRow /\ h.due = agent[i].due /\ h.missed = 0 /\ h.told = agent[i].told
      BY <3>1, <3>2 DEF AgentRow
    <3>4. QED
      BY <2>2, <3>3 DEF AgentRow
  <2>5. agent' = [agent EXCEPT ![i] = g]
    BY <2>1
  <2> HIDE DEF g, h
  <2>6. agent' \in [SourceIds -> AgentRow] /\ \A j \in SourceIds \ {i} : agent'[j] = agent[j]
        /\ agent'[i] = g
    BY <2>2, <2>4, <2>5 DEF SourceInv, SourceTypeOK
  <2>7. SourceOK(i)'
    BY <2>1, <2>2, <2>3, <2>4, <2>6 DEF SourceOK, InTime, SilenceIsCounted, BeatIsStored
  <2>8. QED
    BY <2>1, <2>3, <2>6, <2>7, OneSourceStep DEF SourceInv, SourceTypeOK, BeatIsStored
<1>6. ASSUME NEW i \in SourceIds, HeartbeatLost(i)
      PROVE  SourceInv'
  <2> DEFINE m == IF sources[i].beat = tick THEN agent[i].missed ELSE agent[i].missed + 1
             h == [agent[i] EXCEPT !.due = tick + sources[i].interval]
             g == [h EXCEPT !.missed = m]
  <2>1. /\ i \in DOMAIN sources /\ tick' = tick /\ sources' = sources /\ agent[i].due = tick
        /\ agent' = [agent EXCEPT ![i].due = tick + sources[i].interval, ![i].missed = m]
    BY <1>6 DEF HeartbeatLost, Registered
  <2>2. /\ i \in SourceIds /\ SourceOK(i) /\ sources[i] \in SourceRow /\ agent[i] \in AgentRow
        /\ sources[i].interval \in Nat \ {0} /\ sources[i].samples \in Nat /\ tick \in Nat
        /\ agent[i].missed \in Nat /\ sources[i].beat \in Nat \cup {Never}
    BY <2>1, SourceFacts
  <2>3. g \in AgentRow /\ g.due = tick + sources[i].interval /\ g.missed = m /\ g.changed = agent[i].changed
        /\ g.told = agent[i].told /\ g.untold = agent[i].untold
    <3>1. /\ h \in AgentRow /\ h.due = tick + sources[i].interval /\ h.changed = agent[i].changed
          /\ h.told = agent[i].told /\ h.untold = agent[i].untold
      BY <2>2 DEF AgentRow
    <3>2. m \in Nat
      BY <2>2
    <3> HIDE DEF h, m
    <3>3. QED
      BY <3>1, <3>2 DEF AgentRow
  <2>4. agent' = [agent EXCEPT ![i] = g]
    BY <2>1
  <2> HIDE DEF g, h
  <2>5. agent' \in [SourceIds -> AgentRow] /\ \A j \in SourceIds \ {i} : agent'[j] = agent[j]
        /\ agent'[i] = g
    BY <2>2, <2>3, <2>4 DEF SourceInv, SourceTypeOK
  <2>6. InTime(i)' /\ sources'[i].samples = agent'[i].told + agent'[i].untold
    BY <2>1, <2>2, <2>3, <2>5 DEF SourceOK, InTime
  <2>7. SilenceIsCounted(i)'
    <3> SUFFICES ASSUME sources[i].beat \in Nat, ~agent[i].changed
                 PROVE  /\ m = 0 => g.due = sources[i].beat + sources[i].interval
                        /\ m = 1 => g.due = sources[i].beat + 2 * sources[i].interval
                        /\ m = 2 => g.due = sources[i].beat + 3 * sources[i].interval
                        /\ m >= 3 => tick >= sources[i].beat + 3 * sources[i].interval
      BY <2>1, <2>3, <2>5 DEF SilenceIsCounted
    <3>1. /\ agent[i].missed = 0 => agent[i].due = sources[i].beat + sources[i].interval
                                    \/ (agent[i].due = sources[i].beat /\ tick = sources[i].beat)
          /\ agent[i].missed = 1 => agent[i].due = sources[i].beat + 2 * sources[i].interval
          /\ agent[i].missed = 2 => agent[i].due = sources[i].beat + 3 * sources[i].interval
          /\ agent[i].missed >= 3 => tick >= sources[i].beat + 3 * sources[i].interval
      BY <2>2 DEF SourceOK, SilenceIsCounted
    <3>2. QED
      BY <2>1, <2>2, <2>3, <3>1
  <2>8. QED
    BY <2>1, <2>2, <2>5, <2>6, <2>7, OneSourceStep DEF SourceInv, SourceTypeOK, SourceOK
<1>7. CASE SourceTick
  <2>1. /\ tick' = tick + 1 /\ sources' = sources /\ agent' = agent
        /\ \A i \in DOMAIN sources : agent[i].due # tick
    BY <1>7 DEF SourceTick, Registered
  <2>2. ASSUME NEW i \in DOMAIN sources
        PROVE  SourceOK(i)'
    <3>1. /\ SourceOK(i) /\ tick \in Nat /\ sources[i].interval \in Nat \ {0}
          /\ sources[i].beat \in Nat \cup {Never} /\ agent[i].missed \in Nat
      BY SourceFacts
    <3>2. QED
      BY <2>1, <3>1 DEF SourceOK, InTime, SilenceIsCounted
  <2>3. QED
    BY <2>1, <2>2 DEF SourceInv, SourceTypeOK
<1>8. CASE UNCHANGED sourceVars
  BY <1>8 DEF sourceVars, SourceInv, SourceTypeOK, SourceOK, InTime, SilenceIsCounted
<1>9. QED
  BY <1>1, <1>2, <1>3, <1>4, <1>5, <1>6, <1>7, <1>8 DEF SourceNext

\* The invariant that the judgement of heartbeats rests on.
LEMMA SourceInvariant == SourceSpec => []SourceInv
<1>1. SourceInit => SourceInv
  BY DEF SourceInit, SourceInv, SourceTypeOK, NoAgent, AgentRow
<1>2. SourceInv /\ [SourceNext]_sourceVars => SourceInv'
  BY SourceStep
<1>3. QED
  BY <1>1, <1>2, PTL DEF SourceSpec

\* A source whose agent beats in time is not listed as stale, and one that has missed its beats is, whatever beats are
\* lost and whatever a failure does to the answer (metricsource/service.go).
THEOREM BeatsAreHeard == SourceSpec => []HeartbeatsAreHeard
<1>1. SourceInv => HeartbeatsAreHeard
  <2> SUFFICES ASSUME SourceInv PROVE HeartbeatsAreHeard
    OBVIOUS
  <2>1. ASSUME NEW i \in DOMAIN sources, sources[i].beat # Never, ~agent[i].changed
        PROVE  /\ i \in ListStaleMetricSources => agent[i].missed >= 2
               /\ sources[i].status = "active" /\ agent[i].missed >= 3 => i \in ListStaleMetricSources
    <3>1. /\ SourceOK(i) /\ tick \in Nat /\ sources[i].interval \in Nat \ {0}
          /\ sources[i].beat \in Nat /\ agent[i].missed \in Nat
      BY <2>1, SourceFacts
    <3>2. agent[i].missed >= 3 => sources[i].beat + 2 * sources[i].interval < tick
      BY <2>1, <3>1 DEF SourceOK, SilenceIsCounted
    <3>3. sources[i].beat + 2 * sources[i].interval < tick => agent[i].missed >= 2
      BY <2>1, <3>1 DEF SourceOK, InTime, SilenceIsCounted
    <3>4. QED
      BY <2>1, <3>2, <3>3 DEF ListStaleMetricSources, ListMetricSources, Registered
  <2>2. QED
    BY <2>1 DEF HeartbeatsAreHeard, OneLostBeatIsTolerated, SamplesAreCounted, SourceInv, SourceOK, Registered
<1>2. QED
  BY <1>1, SourceInvariant, PTL

------------------------------------------------------------------------------
(***************************************************************************)
(* Proofs about WebSocketHub: a browser has the whole feed in order or its *)
(* connection ends, for any numbers of browsers, tenants and messages, and *)
(* buffers of any length.                                                  *)
(***************************************************************************)

HubTypeOK ==
    /\ hub \in {"running", "stopped"}
    /\ broadcast \in Seq([tenant : FeedTenants, number : Nat])
    /\ register \subseteq Browsers /\ clients \subseteq Browsers /\ closed \subseteq Browsers
    /\ unregister \in [Browsers -> Nat]
    /\ send \in [Browsers -> Seq(Nat)]
    /\ received \in [Browsers -> Seq(Nat)]
    /\ owed \in [Browsers -> Seq(Nat)]
    /\ reader \in [Browsers -> {"none", "runs", "done"}]
    /\ writer \in [Browsers -> {"none", "runs", "done"}]
    /\ said \in Nat

\* A browser that has not been served yet has nothing; one whose reader has ended is
\* out of the map or about to be removed.
PumpsOK ==
    \A c \in Browsers :
        /\ c \in register => reader[c] = "none"
        /\ reader[c] = "none" =>
              /\ c \notin clients \cup closed /\ writer[c] = "none"
              /\ send[c] = <<>> /\ received[c] = <<>> /\ owed[c] = <<>>
        /\ c \in clients /\ reader[c] = "done" => unregister[c] > 0

\* The messages in the hub's channel are the last ones that were published.
Numbered ==
    /\ Len(broadcast) <= said
    /\ \A i \in 1 .. Len(broadcast) : broadcast[i].number = said - Len(broadcast) + i

Increasing(s) == \A i, j \in DOMAIN s : i < j => s[i] < s[j]
Feed(c) == received[c] \o send[c]

\* What a browser got and will get is in order, and older than what is in the channel.
FeedsInOrder ==
    \A c \in Browsers :
        /\ Increasing(Feed(c))
        /\ \A i \in DOMAIN Feed(c) : Feed(c)[i] <= said - Len(broadcast)

HubInv == HubTypeOK /\ PumpsOK /\ Numbered /\ FeedsInOrder /\ ClosedIsOut /\ NoSilentGap

\* A greater number at the end keeps a sequence increasing.
LEMMA AppendKeepsOrder ==
    ASSUME NEW s \in Seq(Nat), NEW n \in Nat, NEW m \in Nat, m < n, Increasing(s), \A i \in DOMAIN s : s[i] <= m
    PROVE  Increasing(Append(s, n)) /\ \A i \in DOMAIN Append(s, n) : Append(s, n)[i] <= n
<1>1. Append(s, n) \in Seq(Nat) /\ Len(Append(s, n)) = Len(s) + 1
  OBVIOUS
<1>2. /\ \A i \in 1 .. Len(s) : Append(s, n)[i] = s[i] /\ s[i] <= m /\ s[i] \in Nat
      /\ Append(s, n)[Len(s) + 1] = n
  OBVIOUS
<1>3. \A i, j \in 1 .. Len(s) + 1 : i < j => Append(s, n)[i] < Append(s, n)[j]
  <2> SUFFICES ASSUME NEW i \in 1 .. Len(s) + 1, NEW j \in 1 .. Len(s) + 1, i < j
               PROVE  Append(s, n)[i] < Append(s, n)[j]
    OBVIOUS
  <2>1. CASE j = Len(s) + 1
    BY <1>2, <2>1
  <2>2. CASE j \in 1 .. Len(s)
    BY <1>2, <2>2 DEF Increasing
  <2>3. QED
    BY <2>1, <2>2
<1>4. \A i \in 1 .. Len(s) + 1 : Append(s, n)[i] <= n
  BY <1>2
<1>5. DOMAIN Append(s, n) = 1 .. Len(s) + 1
  BY <1>1
<1>6. QED
  BY <1>3, <1>4, <1>5 DEF Increasing

\* What is appended to the second half is appended to the whole.
LEMMA AppendAtTheEnd ==
    ASSUME NEW a \in Seq(Nat), NEW b \in Seq(Nat), NEW n \in Nat
    PROVE  a \o Append(b, n) = Append(a \o b, n)
  OBVIOUS

LEMMA NothingTwice == <<>> \o <<>> = <<>>
  OBVIOUS

\* The head of the second half may be moved to the end of the first.
LEMMA HeadMoves ==
    ASSUME NEW a \in Seq(Nat), NEW b \in Seq(Nat), b # <<>>
    PROVE  /\ Tail(b) \in Seq(Nat) /\ Append(a, Head(b)) \in Seq(Nat)
           /\ Append(a, Head(b)) \o Tail(b) = a \o b
  OBVIOUS

\* A sequence in order stays so when an element of its second half is lost.
LEMMA LossKeepsOrder ==
    ASSUME NEW a \in Seq(Nat), NEW b \in Seq(Nat), b # <<>>, NEW m \in Nat,
           Increasing(a \o b), \A i \in DOMAIN (a \o b) : (a \o b)[i] <= m
    PROVE  Increasing(a \o Tail(b)) /\ \A i \in DOMAIN (a \o Tail(b)) : (a \o Tail(b))[i] <= m
<1> DEFINE s == a \o b
           t == a \o Tail(b)
           at(i) == IF i <= Len(a) THEN i ELSE i + 1
<1>1. s \in Seq(Nat) /\ t \in Seq(Nat) /\ Len(s) = Len(a) + Len(b) /\ Len(t) = Len(a) + Len(b) - 1
  OBVIOUS
<1>2. \A i \in 1 .. Len(t) : at(i) \in 1 .. Len(s) /\ t[i] = s[at(i)]
  OBVIOUS
<1>3. \A i, j \in 1 .. Len(t) : i < j => at(i) < at(j)
  BY <1>1
<1>4. DOMAIN s = 1 .. Len(s) /\ DOMAIN t = 1 .. Len(t)
  BY <1>1
<1>5. /\ \A i, j \in 1 .. Len(s) : i < j => s[i] < s[j]
      /\ \A i \in 1 .. Len(s) : s[i] <= m
  BY <1>4 DEF Increasing
<1> HIDE DEF s, t, at
<1>6. (\A i, j \in 1 .. Len(t) : i < j => t[i] < t[j]) /\ \A i \in 1 .. Len(t) : t[i] <= m
  BY <1>2, <1>3, <1>5
<1>7. QED
  BY <1>4, <1>6 DEF Increasing, t

LEMMA HubStart == ASSUME HubInit PROVE HubInv
<1>1. HubTypeOK
  BY DEF HubInit, HubTypeOK
<1>2. PumpsOK
  BY DEF HubInit, PumpsOK
<1>3. Numbered
  BY DEF HubInit, Numbered
<1>4. FeedsInOrder
  <2>1. \A c \in Browsers : Feed(c) = <<>>
    BY DEF HubInit, Feed
  <2>2. QED
    BY <2>1 DEF FeedsInOrder, Increasing
<1>5. ClosedIsOut /\ NoSilentGap
  BY DEF HubInit, ClosedIsOut, NoSilentGap
<1>6. QED
  BY <1>1, <1>2, <1>3, <1>4, <1>5 DEF HubInv

\* A publication puts the next number at the end of the channel.
LEMMA BroadcastKeeps ==
    ASSUME HubInv, NEW t \in FeedTenants, Broadcast(t)
    PROVE  HubInv'
<1> DEFINE msg == [tenant |-> t, number |-> said + 1]
<1>1. /\ said' = said + 1 /\ broadcast' = Append(broadcast, msg)
      /\ UNCHANGED <<hub, register, unregister, clients, send, closed, reader, writer, received, owed>>
  BY DEF Broadcast
<1>2. msg \in [tenant : FeedTenants, number : Nat] /\ msg.number = said + 1
  BY DEF HubInv, HubTypeOK
<1> HIDE DEF msg
<1>3. Len(broadcast') = Len(broadcast) + 1 /\ broadcast' \in Seq([tenant : FeedTenants, number : Nat])
  BY <1>1, <1>2 DEF HubInv, HubTypeOK
<1>4. HubTypeOK'
  BY <1>1, <1>3 DEF HubInv, HubTypeOK
<1>5. Numbered'
  <2>1. /\ \A i \in 1 .. Len(broadcast) : broadcast'[i] = broadcast[i]
        /\ broadcast'[Len(broadcast) + 1] = msg
    BY <1>1, <1>2 DEF HubInv, HubTypeOK
  <2>2. QED
    BY <1>1, <1>2, <1>3, <2>1 DEF HubInv, HubTypeOK, Numbered
<1>6. FeedsInOrder'
  BY <1>1, <1>3 DEF HubInv, HubTypeOK, FeedsInOrder, Feed
<1>7. PumpsOK' /\ ClosedIsOut' /\ NoSilentGap'
  BY <1>1 DEF HubInv, PumpsOK, ClosedIsOut, NoSilentGap
<1>8. QED
  BY <1>4, <1>5, <1>6, <1>7 DEF HubInv

\* The steps that touch neither the channel nor a buffer keep the order.
LEMMA OrderStays ==
    ASSUME HubInv, UNCHANGED <<broadcast, send, received, said>>
    PROVE  Numbered' /\ FeedsInOrder'
  BY DEF HubInv, Numbered, FeedsInOrder, Feed

LEMMA HandleKeeps ==
    ASSUME HubInv, NEW c \in Browsers, HandleWS(c)
    PROVE  HubInv'
<1>1. HubTypeOK'
  BY DEF HandleWS, HubInv, HubTypeOK
<1>2. PumpsOK' /\ ClosedIsOut' /\ NoSilentGap'
  BY DEF HandleWS, HubInv, HubTypeOK, PumpsOK, ClosedIsOut, NoSilentGap
<1>3. QED
  BY <1>1, <1>2, OrderStays DEF HandleWS, HubInv

LEMMA RegisterKeeps ==
    ASSUME HubInv, NEW c \in Browsers, TakeRegister(c)
    PROVE  HubInv'
<1>1. HubTypeOK'
  BY DEF TakeRegister, HubInv, HubTypeOK
<1>2. PumpsOK'
  BY DEF TakeRegister, HubInv, HubTypeOK, PumpsOK
<1>3. ClosedIsOut'
  BY DEF TakeRegister, HubInv, HubTypeOK, PumpsOK, ClosedIsOut
<1>4. NoSilentGap'
  <2>1. received[c] = <<>> /\ send[c] = <<>> /\ owed[c] = <<>>
    BY DEF TakeRegister, HubInv, PumpsOK
  <2>2. received[c] \o send[c] = owed[c]
    BY <2>1, NothingTwice
  <2>3. QED
    BY <2>2 DEF TakeRegister, HubInv, HubTypeOK, NoSilentGap
<1>5. QED
  BY <1>1, <1>2, <1>3, <1>4, OrderStays DEF TakeRegister, HubInv

LEMMA UnregisterKeeps ==
    ASSUME HubInv, NEW c \in Browsers, TakeUnregister(c)
    PROVE  HubInv'
<1>1. HubTypeOK'
  BY DEF TakeUnregister, HubInv, HubTypeOK
<1>2. PumpsOK'
  BY DEF TakeUnregister, HubInv, HubTypeOK, PumpsOK
<1>3. ClosedIsOut' /\ NoSilentGap'
  BY DEF TakeUnregister, HubInv, HubTypeOK, ClosedIsOut, NoSilentGap
<1>4. QED
  BY <1>1, <1>2, <1>3, OrderStays DEF TakeUnregister, HubInv

LEMMA StopKeeps == ASSUME HubInv, Stop PROVE HubInv'
<1>1. HubTypeOK'
  BY DEF Stop, HubInv, HubTypeOK
<1>2. PumpsOK' /\ ClosedIsOut' /\ NoSilentGap'
  BY DEF Stop, HubInv, HubTypeOK, PumpsOK, ClosedIsOut, NoSilentGap
<1>3. QED
  BY <1>1, <1>2, OrderStays DEF Stop, HubInv

\* The hub gives the oldest message to those it is for, or sends someone to remove them.
LEMMA TakeKeeps == ASSUME HubInv, TakeBroadcast PROVE HubInv'
<1> DEFINE msg == Head(broadcast)
           to == IF msg.number \in Malformed THEN {} ELSE Addressed(msg.tenant)
           n == msg.number
<1>1. /\ broadcast # <<>> /\ broadcast' = Tail(broadcast)
      /\ send' = [c \in Browsers |-> IF c \in to /\ Fits(c) THEN Append(send[c], n) ELSE send[c]]
      /\ unregister' = [c \in Browsers |-> unregister[c] + (IF c \in to \cap Slow(msg.tenant) THEN 1 ELSE 0)]
      /\ owed' = [c \in Browsers |-> IF c \in to THEN Append(owed[c], n) ELSE owed[c]]
      /\ UNCHANGED <<hub, register, clients, closed, reader, writer, received, said>>
  BY DEF TakeBroadcast
<1>2. to \subseteq clients /\ \A c \in to : ~Fits(c) => c \in to \cap Slow(msg.tenant)
  BY DEF Addressed, Slow
<1>3. /\ Len(broadcast) \in Nat /\ Len(broadcast) > 0 /\ msg = broadcast[1]
      /\ broadcast' \in Seq([tenant : FeedTenants, number : Nat])
      /\ Len(broadcast') = Len(broadcast) - 1
      /\ \A i \in 1 .. Len(broadcast) - 1 : broadcast'[i] = broadcast[i + 1]
  BY <1>1 DEF HubInv, HubTypeOK
<1>4. n = said - Len(broadcast) + 1 /\ n \in Nat
  <2>1. 1 \in 1 .. Len(broadcast) /\ said \in Nat /\ Len(broadcast) <= said
    BY <1>3 DEF HubInv, HubTypeOK, Numbered
  <2>2. broadcast[1].number = said - Len(broadcast) + 1
    BY <2>1 DEF HubInv, Numbered
  <2>3. QED
    BY <1>3, <2>1, <2>2
<1> HIDE DEF msg, n, to
<1>5. HubTypeOK'
  <2>1. \A c \in Browsers : Append(send[c], n) \in Seq(Nat) /\ Append(owed[c], n) \in Seq(Nat)
    BY <1>4 DEF HubInv, HubTypeOK
  <2>2. \A c \in Browsers : (IF c \in to \cap Slow(msg.tenant) THEN 1 ELSE 0) \in Nat
    OBVIOUS
  <2>3. QED
    BY <1>1, <1>3, <2>1, <2>2 DEF HubInv, HubTypeOK
<1>6. Numbered'
  <2>1. said' = said /\ said \in Nat /\ Len(broadcast') <= said'
    BY <1>1, <1>3 DEF HubInv, HubTypeOK, Numbered
  <2>2. \A i \in 1 .. Len(broadcast') : broadcast'[i].number = said' - Len(broadcast') + i
    <3>1. \A i \in 1 .. Len(broadcast) : broadcast[i].number = said - Len(broadcast) + i
      BY DEF HubInv, Numbered
    <3> SUFFICES ASSUME NEW i \in 1 .. Len(broadcast) - 1
                 PROVE  broadcast[i + 1].number = said - (Len(broadcast) - 1) + i
      BY <1>3, <2>1
    <3>2. i + 1 \in 1 .. Len(broadcast)
      BY <1>3
    <3>3. broadcast[i + 1].number = said - Len(broadcast) + (i + 1)
      BY <3>1, <3>2
    <3>4. QED
      BY <1>3, <2>1, <3>3
  <2>3. QED
    BY <2>1, <2>2 DEF Numbered
<1>7. PumpsOK'
  <2> SUFFICES ASSUME NEW c \in Browsers
               PROVE  /\ c \in register => reader[c] = "none"
                      /\ reader[c] = "none" =>
                            /\ c \notin clients \cup closed /\ writer[c] = "none"
                            /\ send'[c] = <<>> /\ received[c] = <<>> /\ owed'[c] = <<>>
                      /\ c \in clients /\ reader[c] = "done" => unregister'[c] > 0
    BY <1>1 DEF PumpsOK
  <2>1. reader[c] = "none" => send'[c] = send[c] /\ owed'[c] = owed[c]
    BY <1>1, <1>2 DEF HubInv, PumpsOK
  <2>2. unregister'[c] >= unregister[c]
    BY <1>1 DEF HubInv, HubTypeOK
  <2>3. unregister[c] \in Nat /\ unregister'[c] \in Nat
    BY <1>5 DEF HubInv, HubTypeOK
  <2>4. QED
    BY <2>1, <2>2, <2>3 DEF HubInv, PumpsOK
<1>8. FeedsInOrder'
  <2> SUFFICES ASSUME NEW c \in Browsers
               PROVE  Increasing(Feed(c)') /\ \A i \in DOMAIN Feed(c)' : Feed(c)'[i] <= n
    BY <1>1, <1>3, <1>4 DEF HubInv, HubTypeOK, FeedsInOrder
  <2>1. /\ Feed(c) \in Seq(Nat) /\ Increasing(Feed(c))
        /\ \A i \in DOMAIN Feed(c) : Feed(c)[i] <= n - 1
    BY <1>4 DEF HubInv, HubTypeOK, FeedsInOrder, Feed
  <2>2. CASE c \in to /\ Fits(c)
    <3>1. Feed(c)' = Append(Feed(c), n)
      <4>1. send'[c] = Append(send[c], n) /\ received' = received
        BY <1>1, <2>2
      <4>2. send[c] \in Seq(Nat) /\ received[c] \in Seq(Nat)
        BY DEF HubInv, HubTypeOK
      <4>3. received[c] \o Append(send[c], n) = Append(received[c] \o send[c], n)
        BY <1>4, <4>2, AppendAtTheEnd
      <4>4. QED
        BY <4>1, <4>3 DEF Feed
    <3>2. n - 1 \in Nat
      BY <1>4 DEF HubInv, HubTypeOK, Numbered
    <3>3. QED
      BY <1>4, <2>1, <3>1, <3>2, AppendKeepsOrder
  <2>3. CASE ~(c \in to /\ Fits(c))
    <3>1. Feed(c)' = Feed(c)
      BY <1>1, <2>3 DEF Feed
    <3>2. \A i \in DOMAIN Feed(c) : Feed(c)[i] \in Nat
      BY <2>1
    <3>3. QED
      BY <1>4, <2>1, <3>1, <3>2
  <2>4. QED
    BY <2>2, <2>3
<1>9. ClosedIsOut'
  BY <1>1 DEF HubInv, ClosedIsOut
<1>10. NoSilentGap'
  <2> SUFFICES ASSUME NEW c \in clients
               PROVE  \/ received[c] \o send'[c] = owed'[c]
                      \/ unregister'[c] > 0
                      \/ writer[c] = "done" /\ reader[c] = "runs"
    BY <1>1 DEF NoSilentGap
  <2>1. c \in Browsers /\ unregister[c] \in Nat
    BY DEF HubInv, HubTypeOK
  <2>2. CASE received[c] \o send[c] = owed[c] /\ c \in to /\ Fits(c)
    <3>1. send'[c] = Append(send[c], n) /\ owed'[c] = Append(owed[c], n)
      BY <1>1, <2>1, <2>2
    <3>2. send[c] \in Seq(Nat) /\ received[c] \in Seq(Nat)
      BY <2>1 DEF HubInv, HubTypeOK
    <3>3. received[c] \o Append(send[c], n) = Append(received[c] \o send[c], n)
      BY <1>4, <3>2, AppendAtTheEnd
    <3>4. QED
      BY <2>2, <3>1, <3>3
  <2>3. CASE c \in to /\ ~Fits(c)
    <3>1. c \in to \cap Slow(msg.tenant)
      BY <1>2, <2>3
    <3>2. unregister'[c] = unregister[c] + 1
      BY <1>1, <2>1, <3>1
    <3>3. unregister'[c] > 0
      BY <2>1, <3>2
    <3>4. QED
      BY <3>3
  <2>4. CASE received[c] \o send[c] = owed[c] /\ c \notin to
    BY <1>1, <2>1, <2>4
  <2>5. CASE unregister[c] > 0
    <3>1. unregister'[c] = unregister[c] \/ unregister'[c] = unregister[c] + 1
      <4>1. unregister'[c] = unregister[c] + (IF c \in to \cap Slow(msg.tenant) THEN 1 ELSE 0)
        BY <1>1, <2>1
      <4>2. QED
        BY <2>1, <4>1
    <3>2. unregister'[c] > 0
      BY <2>1, <2>5, <3>1
    <3>3. QED
      BY <3>2
  <2>6. QED
    BY <2>2, <2>3, <2>4, <2>5 DEF HubInv, NoSilentGap
<1>11. QED
  BY <1>5, <1>6, <1>7, <1>8, <1>9, <1>10 DEF HubInv

LEMMA WriteKeeps ==
    ASSUME HubInv, NEW c \in Browsers, WriteMessage(c)
    PROVE  HubInv'
<1>1. /\ writer[c] = "runs" /\ send[c] # <<>>
      /\ send' = [send EXCEPT ![c] = Tail(@)]
      /\ received' = [received EXCEPT ![c] = Append(@, Head(send[c]))]
      /\ UNCHANGED <<hub, broadcast, register, unregister, clients, closed, reader, writer, owed, said>>
  BY DEF WriteMessage
<1>2. /\ send[c] \in Seq(Nat) /\ received[c] \in Seq(Nat)
      /\ Tail(send[c]) \in Seq(Nat) /\ Append(received[c], Head(send[c])) \in Seq(Nat)
      /\ Append(received[c], Head(send[c])) \o Tail(send[c]) = received[c] \o send[c]
  BY <1>1, HeadMoves DEF HubInv, HubTypeOK
<1>3. \A d \in Browsers : received'[d] \o send'[d] = received[d] \o send[d]
  BY <1>1, <1>2 DEF HubInv, HubTypeOK
<1>4. HubTypeOK'
  BY <1>1, <1>2 DEF HubInv, HubTypeOK
<1>5. PumpsOK'
  BY <1>1 DEF HubInv, HubTypeOK, PumpsOK
<1>6. Numbered' /\ ClosedIsOut'
  BY <1>1 DEF HubInv, Numbered, ClosedIsOut
<1>7. FeedsInOrder'
  BY <1>1, <1>3 DEF HubInv, FeedsInOrder, Feed
<1>8. NoSilentGap'
  BY <1>1, <1>3 DEF HubInv, HubTypeOK, NoSilentGap
<1>9. QED
  BY <1>4, <1>5, <1>6, <1>7, <1>8 DEF HubInv

LEMMA WriterEndKeeps ==
    ASSUME HubInv, NEW c \in Browsers, WriterEnds(c)
    PROVE  HubInv'
<1>1. /\ writer[c] = "runs" /\ writer' = [writer EXCEPT ![c] = "done"]
      /\ send' = send \/ (send[c] # <<>> /\ send' = [send EXCEPT ![c] = Tail(@)])
      /\ UNCHANGED <<hub, broadcast, register, unregister, clients, closed, reader, received, owed, said>>
  BY DEF WriterEnds, HubInv, HubTypeOK
<1>2. reader[c] # "none"
  BY <1>1 DEF HubInv, PumpsOK
<1>3. send[c] \in Seq(Nat) /\ (send[c] # <<>> => Tail(send[c]) \in Seq(Nat))
  BY DEF HubInv, HubTypeOK
<1>4. HubTypeOK'
  BY <1>1, <1>3 DEF HubInv, HubTypeOK
<1>5. PumpsOK'
  BY <1>1, <1>2 DEF HubInv, HubTypeOK, PumpsOK
<1>6. Numbered' /\ ClosedIsOut'
  BY <1>1 DEF HubInv, Numbered, ClosedIsOut
<1>7. FeedsInOrder'
  <2> SUFFICES ASSUME NEW d \in Browsers
               PROVE  Increasing(Feed(d)') /\ \A i \in DOMAIN Feed(d)' : Feed(d)'[i] <= said - Len(broadcast)
    BY <1>1 DEF FeedsInOrder
  <2>1. CASE send'[d] = send[d]
    BY <1>1, <2>1 DEF HubInv, FeedsInOrder, Feed
  <2>2. CASE d = c /\ send[c] # <<>> /\ send'[c] = Tail(send[c])
    <3>1. said - Len(broadcast) \in Nat
      BY DEF HubInv, HubTypeOK, Numbered
    <3>2. received[c] \in Seq(Nat)
      BY DEF HubInv, HubTypeOK
    <3>3. Increasing(received[c] \o send[c])
          /\ \A i \in DOMAIN (received[c] \o send[c]) : (received[c] \o send[c])[i] <= said - Len(broadcast)
      BY DEF HubInv, FeedsInOrder, Feed
    <3>4. Feed(d)' = received[c] \o Tail(send[c])
      BY <1>1, <2>2 DEF Feed
    <3>5. QED
      BY <1>3, <2>2, <3>1, <3>2, <3>3, <3>4, LossKeepsOrder
  <2>3. QED
    BY <1>1, <2>1, <2>2 DEF HubInv, HubTypeOK
<1>8. NoSilentGap'
  <2> SUFFICES ASSUME NEW d \in clients
               PROVE  \/ received[d] \o send'[d] = owed[d]
                      \/ unregister[d] > 0
                      \/ writer'[d] = "done" /\ reader[d] = "runs"
    BY <1>1 DEF NoSilentGap
  <2>1. d \in Browsers
    BY DEF HubInv, HubTypeOK
  <2>2. CASE d = c
    BY <1>1, <1>2, <2>1, <2>2 DEF HubInv, HubTypeOK, PumpsOK
  <2>3. CASE d # c
    BY <1>1, <2>1, <2>3 DEF HubInv, HubTypeOK, NoSilentGap
  <2>4. QED
    BY <2>2, <2>3
<1>9. QED
  BY <1>4, <1>5, <1>6, <1>7, <1>8 DEF HubInv

LEMMA ReaderEndKeeps ==
    ASSUME HubInv, NEW c \in Browsers, ReaderEnds(c)
    PROVE  HubInv'
<1>1. HubTypeOK'
  BY DEF ReaderEnds, HubInv, HubTypeOK
<1>2. PumpsOK'
  BY DEF ReaderEnds, HubInv, HubTypeOK, PumpsOK
<1>3. ClosedIsOut'
  BY DEF ReaderEnds, HubInv, ClosedIsOut
<1>4. NoSilentGap'
  <2>1. /\ unregister[c] \in Nat /\ unregister'[c] = unregister[c] + 1
        /\ \A d \in Browsers \ {c} : unregister'[d] = unregister[d] /\ reader'[d] = reader[d]
        /\ UNCHANGED <<clients, received, send, owed, writer>> /\ clients \subseteq Browsers
    BY DEF ReaderEnds, HubInv, HubTypeOK
  <2>2. unregister'[c] > 0
    BY <2>1
  <2>3. QED
    BY <2>1, <2>2 DEF HubInv, NoSilentGap
<1>5. QED
  BY <1>1, <1>2, <1>3, <1>4, OrderStays DEF ReaderEnds, HubInv

LEMMA HubStep == ASSUME HubInv, [HubNext]_hubVars PROVE HubInv'
<1>1. CASE UNCHANGED hubVars
  BY <1>1 DEF hubVars, HubInv, HubTypeOK, PumpsOK, Numbered, FeedsInOrder, Feed, ClosedIsOut, NoSilentGap
<1>2. CASE HubNext
  BY <1>2, BroadcastKeeps, TakeKeeps, StopKeeps, HandleKeeps, RegisterKeeps, UnregisterKeeps,
     WriteKeeps, WriterEndKeeps, ReaderEndKeeps DEF HubNext
<1>3. QED
  BY <1>1, <1>2

\* What the hub promises a browser: the whole feed in order, or the end of the
\* connection (websocket/hub.go:81); and no channel is used after it was closed.
THEOREM OrderlyFeed == HubSpec => []FeedIsOrderly
<1>1. HubInv => FeedIsOrderly
  BY DEF HubInv, FeedIsOrderly, FeedsInOrder, Feed, Increasing, InOrder
<1>2. QED
  BY <1>1, HubStart, HubStep, PTL DEF HubSpec
==============================================================================
