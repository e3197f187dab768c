---------------------------- MODULE MetricSources ----------------------------
(***************************************************************************)
(* The registry of metric sources and their heartbeats                     *)
(* (internal/domain/metricsource/service.go).  An agent beats once per     *)
(* interval; a beat or its answer may be lost, and an agent that saw no    *)
(* answer may repeat the call.  The list of stale sources is computed from *)
(* the row when it is asked for.                                           *)
(***************************************************************************)
EXTENDS Naturals, FiniteSets

CONSTANTS
    SourceIds, SourceNames, Never,
    Intervals,              \* expected_interval_seconds, in ticks
    LastTick, MaxBeatLosses \* bounds

ASSUME SourcesAssumption == Never \notin Nat /\ Intervals \subseteq Nat \ {0}

VARIABLES
    sources,        \* metric_sources, by id
    agent,          \* per source: when it last beat and was heard, what it counted
    tick, beatLosses

sourceVars == <<sources, agent, tick, beatLosses>>

Registered == DOMAIN sources
NoAgent == [due |-> Never, missed |-> 0, changed |-> FALSE, told |-> 0, untold |-> 0]

\* uq_metric_sources_tenant_name
NameFree(i, name) == \A j \in Registered \ {i} : sources[j].name # name
GetMetricSourceByName(name) == {i \in Registered : sources[i].name = name}
ListMetricSources(status) == {i \in Registered : sources[i].status = status}

ListStaleMetricSources_OneInterval ==
    {i \in ListMetricSources("active") :
        sources[i].beat = Never \/ sources[i].beat + sources[i].interval < tick}

\* Active, and silent for more than two intervals or never heard.
ListStaleMetricSources ==
    {i \in ListMetricSources("active") :
        sources[i].beat = Never \/ sources[i].beat + 2 * sources[i].interval < tick}

SourceInit ==
    /\ sources = <<>>
    /\ agent = [i \in SourceIds |-> NoAgent]
    /\ tick = 0 /\ beatLosses = 0

\* The interval is checked to be positive, here and by the table.
CreateMetricSource(i, name, interval, status) ==
    /\ i \notin Registered /\ agent[i] = NoAgent
    /\ NameFree(i, name)
    /\ sources' = [j \in Registered \cup {i} |-> IF j = i
          THEN [name |-> name, status |-> status, interval |-> interval, beat |-> Never, samples |-> 0]
          ELSE sources[j]]
    /\ agent' = [agent EXCEPT ![i].due = tick + interval]
    /\ UNCHANGED <<tick, beatLosses>>

\* The agent takes up a new interval from its next beat on.
UpdateMetricSource(i, name, interval, status) ==
    /\ i \in Registered /\ NameFree(i, name)
    /\ sources' = [sources EXCEPT ![i].name = name, ![i].interval = interval, ![i].status = status]
    /\ agent' = [agent EXCEPT ![i].changed = @ \/ interval # sources[i].interval]
    /\ UNCHANGED <<tick, beatLosses>>

\* The row is removed; nothing is heard of the source again.
DeleteMetricSource(i) ==
    /\ i \in Registered
    /\ sources' = [j \in Registered \ {i} |-> sources[j]]
    /\ agent' = [agent EXCEPT ![i].due = Never]
    /\ UNCHANGED <<tick, beatLosses>>

\* One UPDATE adds to the counter and sets the time.
HeartbeatMetricSource(i, sampleDelta) ==
    sources' = [sources EXCEPT ![i].beat = tick, ![i].samples = @ + sampleDelta]

\* The agent's turn: the call arrives and is answered,
Heartbeat(i) ==
    /\ i \in Registered /\ agent[i].due = tick
    /\ HeartbeatMetricSource(i, 1)
    /\ agent' = [agent EXCEPT ![i] = [due |-> tick + sources[i].interval, missed |-> 0,
                                      changed |-> FALSE, told |-> @.told + 1, untold |-> @.untold]]
    /\ UNCHANGED <<tick, beatLosses>>

\* or the answer is lost, and the agent repeats the samples with its next call,
HeartbeatUnanswered(i) ==
    /\ i \in Registered /\ agent[i].due = tick
    /\ beatLosses < MaxBeatLosses /\ beatLosses' = beatLosses + 1
    /\ HeartbeatMetricSource(i, 1)
    /\ agent' = [agent EXCEPT ![i].missed = 0, ![i].changed = FALSE,
                              ![i].untold = @ + 1]
    /\ UNCHANGED tick

\* or nothing arrives.
HeartbeatLost(i) ==
    /\ i \in Registered /\ agent[i].due = tick
    /\ beatLosses < MaxBeatLosses /\ beatLosses' = beatLosses + 1
    /\ agent' = [agent EXCEPT ![i].due = tick + sources[i].interval,
          ![i].missed = IF sources[i].beat = tick THEN @ ELSE @ + 1]
    /\ UNCHANGED <<sources, tick>>

\* Time passes once every agent that is due has had its turn.
SourceTick ==
    /\ tick < LastTick
    /\ \A i \in Registered : agent[i].due # tick
    /\ tick' = tick + 1
    /\ UNCHANGED <<sources, agent, beatLosses>>

SourceNext ==
    \/ \E i \in SourceIds, name \in SourceNames, n \in Intervals, status \in {"active", "disabled"} :
          CreateMetricSource(i, name, n, status)
    \/ \E i \in SourceIds, name \in SourceNames, n \in Intervals, status \in {"active", "disabled"} :
          UpdateMetricSource(i, name, n, status)
    \/ \E i \in SourceIds : DeleteMetricSource(i)
    \/ \E i \in SourceIds : Heartbeat(i)
    \/ \E i \in SourceIds : HeartbeatUnanswered(i)
    \/ \E i \in SourceIds : HeartbeatLost(i)
    \/ SourceTick

SourceSpec == SourceInit /\ [][SourceNext]_sourceVars

\* The 2x factor bears one lost beat and never a third: while its interval stays the
\* same, a source that has been heard is listed as stale only after two beats in a
\* row were lost, and an active one that lost three is listed.
OneLostBeatIsTolerated ==
    \A i \in Registered :
        sources[i].beat # Never /\ ~agent[i].changed =>
            /\ i \in ListStaleMetricSources => agent[i].missed >= 2
            /\ sources[i].status = "active" /\ agent[i].missed >= 3 => i \in ListStaleMetricSources

\* Every beat the agent knows to have arrived is in the lifetime counter, whatever
\* was lost or repeated; the surplus is that of the answers that never came.
SamplesAreCounted ==
    \A i \in Registered : sources[i].samples = agent[i].told + agent[i].untold

\* What the registry says of a source, its silence and its count, is what its agent
\* did (metricsource/service.go).
HeartbeatsAreHeard == OneLostBeatIsTolerated /\ SamplesAreCounted
==============================================================================
