---------------------------- MODULE AdapterPuller ----------------------------
(***************************************************************************)
(* The metrics puller (internal/domain/workflows/metrics.go).  Every       *)
(* replica reads the list of due adapters on its own ticks and works       *)
(* through it: fetch, record the outcome, and at the threshold disable the *)
(* adapter and report it.  Nothing keeps two replicas from pulling the     *)
(* same adapter, and any statement may fail and any replica stop.  How     *)
(* long a backoff lasts is left to BackoffEnds.                            *)
(***************************************************************************)
EXTENDS Naturals, FiniteSets

CONSTANTS
    AdapterIds,
    Setups,                     \* [type, direction, endpoint, config] an operator may give
    Pullers,                    \* the replicas
    adapterDisableThreshold,
    MaxAdapterEdits, MaxSlips   \* bounds

ASSUME PullerAssumption == Setups # {} /\ adapterDisableThreshold \in Nat \ {0}

VARIABLES
    adapters,       \* integration_adapters, by id
    puller,         \* per replica: its step, the rest of its list, the adapter it is on
    cutOff,         \* the adapters a puller disabled since an operator last enabled them
    reported,       \* those of them with an "adapter_auto_disabled" audit event
    interrupted,    \* per adapter: what a failure, a stop or an operator came between
    adapterEdits, slips

pullerVars == <<adapters, puller, cutOff, reported, interrupted, adapterEdits, slips>>

Kept == {a \in AdapterIds : adapters[a].row = "kept"}
Waits == [at |-> "waiting", todo |-> <<>>, on |-> {}]

\* Inbound, enabled, and not within the backoff of its last failure.
ListDuePullAdapters ==
    {a \in Kept : /\ adapters[a].setup.direction = "inbound"
                  /\ adapters[a].enabled
                  /\ ~adapters[a].cooling}

\* What a fetch may come to, by the adapter's type; a configuration that is no JSON always
\* fails, and Prometheus and Zabbix answer at once when nothing is asked of them.
Tried == {"fetched", "failed"}
PlaceholderFetch(config) == {"failed"}
CustomRESTFetch(config) == IF config = "malformed" THEN {"failed"} ELSE Tried
PrometheusFetch(config) ==
    IF config = "malformed" THEN {"failed"} ELSE IF config = "idle" THEN {"fetched"} ELSE Tried
ZabbixFetch(config) == PrometheusFetch(config)

\* An unknown type is pulled as Prometheus.
GetAdapter(type, config) ==
    CASE type \in {"snmp", "datadog", "nagios"} -> PlaceholderFetch(config)
      [] type = "custom_rest" -> CustomRESTFetch(config)
      [] type = "zabbix" -> ZabbixFetch(config)
      [] OTHER -> PrometheusFetch(config)

Fetch(setup) == GetAdapter(setup.type, setup.config)

\* No endpoint, or a configuration that does not decrypt: passed over, and recorded nowhere.
PassedOver(setup) == setup.endpoint = "blank" \/ setup.config = "undecryptable"

ReachesThreshold_Exactly(n) == n = adapterDisableThreshold
ReachesThreshold(n) == n >= adapterDisableThreshold

PullerInit ==
    /\ adapters = [a \in AdapterIds |->
          [row |-> "none", setup |-> CHOOSE s \in Setups : TRUE, enabled |-> FALSE, failures |-> 0, cooling |-> FALSE]]
    /\ puller = [p \in Pullers |-> Waits]
    /\ cutOff = {} /\ reported = {}
    /\ interrupted = [a \in AdapterIds |-> {}]
    /\ adapterEdits = 0 /\ slips = 0

-----------------------------------------------------------------------------
\* Enabled unless the request says otherwise.
CreateAdapter(a, setup, enabled) ==
    /\ adapters[a].row = "none"
    /\ adapters' = [adapters EXCEPT ![a].row = "kept", ![a].setup = setup, ![a].enabled = enabled]
    /\ UNCHANGED <<puller, cutOff, reported, interrupted, adapterEdits, slips>>

\* A partial update; the failure columns stay, also when the adapter is enabled again.
UpdateAdapter(a, setup, enabled) ==
    /\ a \in Kept
    /\ adapterEdits < MaxAdapterEdits /\ adapterEdits' = adapterEdits + 1
    /\ adapters' = [adapters EXCEPT ![a].setup = setup, ![a].enabled = enabled]
    /\ IF enabled
       THEN /\ cutOff' = cutOff \ {a} /\ reported' = reported \ {a}
            /\ interrupted' = [interrupted EXCEPT ![a] = {"disabling"}]
       ELSE UNCHANGED <<cutOff, reported, interrupted>>
    /\ UNCHANGED <<puller, slips>>

DeleteAdapter(a) ==
    /\ a \in Kept
    /\ adapters' = [adapters EXCEPT ![a].row = "gone"]
    /\ cutOff' = cutOff \ {a}
    /\ UNCHANGED <<puller, reported, interrupted, adapterEdits, slips>>

BackoffEnds(a) ==
    /\ a \in Kept /\ adapters[a].cooling
    /\ adapters' = [adapters EXCEPT ![a].cooling = FALSE]
    /\ UNCHANGED <<puller, cutOff, reported, interrupted, adapterEdits, slips>>

-----------------------------------------------------------------------------
\* A tick: the whole list is read at once, and worked through later.
ListDue(p) ==
    /\ puller[p].at = "waiting" /\ ListDuePullAdapters # {}
    /\ puller' = [puller EXCEPT ![p].at = "looping",
                                ![p].todo = [a \in ListDuePullAdapters |-> adapters[a].setup]]
    /\ UNCHANGED <<adapters, cutOff, reported, interrupted, adapterEdits, slips>>

Remaining(p, a) == [b \in DOMAIN puller[p].todo \ {a} |-> puller[p].todo[b]]

\* On to the rest of the list, or to the next tick.
Onward(p) ==
    puller' = [puller EXCEPT ![p] =
        IF DOMAIN @.todo = {} THEN Waits ELSE [at |-> "looping", todo |-> @.todo, on |-> {}]]

\* The list has no order.
PullFromAdapter(p, a) ==
    /\ puller[p].at = "looping" /\ a \in DOMAIN puller[p].todo
    /\ IF PassedOver(puller[p].todo[a])
       THEN puller' = [puller EXCEPT ![p] =
                IF DOMAIN @.todo = {a} THEN Waits ELSE [at |-> "looping", todo |-> Remaining(p, a), on |-> {}]]
       ELSE \E outcome \in Fetch(puller[p].todo[a]) :
                puller' = [puller EXCEPT ![p] = [at |-> outcome, todo |-> Remaining(p, a), on |-> {a}]]
    /\ UNCHANGED <<adapters, cutOff, reported, interrupted, adapterEdits, slips>>

RecordAdapterSuccess(p, a) ==
    /\ puller[p].at = "fetched" /\ puller[p].on = {a}
    /\ adapters' = [adapters EXCEPT ![a].failures = 0, ![a].cooling = FALSE]
    /\ Onward(p)
    /\ UNCHANGED <<cutOff, reported, interrupted, adapterEdits, slips>>

\* One UPDATE counts, starts the backoff and returns the count the decision is made on;
\* of a deleted adapter there is no row to return.
RecordAdapterFailure(p, a) ==
    /\ puller[p].at = "failed" /\ puller[p].on = {a}
    /\ IF a \in Kept
       THEN /\ adapters' = [adapters EXCEPT ![a].failures = @ + 1, ![a].cooling = TRUE]
            /\ interrupted' = [interrupted EXCEPT ![a] = @ \ {"disabling"}]
            /\ IF ReachesThreshold(adapters[a].failures + 1)
               THEN puller' = [puller EXCEPT ![p].at = "disabling"]
               ELSE Onward(p)
       ELSE Onward(p) /\ UNCHANGED <<adapters, interrupted>>
    /\ UNCHANGED <<cutOff, reported, adapterEdits, slips>>

DisableAdapter(p, a) ==
    /\ puller[p].at = "disabling" /\ puller[p].on = {a}
    /\ adapters' = [adapters EXCEPT ![a].enabled = FALSE]
    /\ cutOff' = cutOff \cup ({a} \cap Kept)
    /\ puller' = [puller EXCEPT ![p].at = "auditing"]
    /\ UNCHANGED <<reported, interrupted, adapterEdits, slips>>

\* The audit event, and a notification to each administrator.
EmitAdapterDisabledAudit(p, a) ==
    /\ puller[p].at = "auditing" /\ puller[p].on = {a}
    /\ reported' = reported \cup (cutOff \cap {a})
    /\ Onward(p)
    /\ UNCHANGED <<adapters, cutOff, interrupted, adapterEdits, slips>>

CutShort(p) ==
    interrupted' = [a \in AdapterIds |->
        interrupted[a] \cup (IF a \in puller[p].on THEN {puller[p].at} \cap {"disabling", "auditing"} ELSE {})]

\* A statement fails: it is logged, and the loop goes on.
StatementFails(p) ==
    /\ puller[p].at \in {"fetched", "failed", "disabling", "auditing"}
    /\ slips < MaxSlips /\ slips' = slips + 1
    /\ CutShort(p) /\ Onward(p)
    /\ UNCHANGED <<adapters, cutOff, reported, adapterEdits>>

\* A replica stops and starts; its list is gone.
PullerRestarts(p) ==
    /\ puller[p].at # "waiting"
    /\ slips < MaxSlips /\ slips' = slips + 1
    /\ CutShort(p)
    /\ puller' = [puller EXCEPT ![p] = Waits]
    /\ UNCHANGED <<adapters, cutOff, reported, adapterEdits>>

PullerNext ==
    \/ \E a \in AdapterIds, s \in Setups, enabled \in BOOLEAN : CreateAdapter(a, s, enabled)
    \/ \E a \in AdapterIds, s \in Setups, enabled \in BOOLEAN : UpdateAdapter(a, s, enabled)
    \/ \E a \in AdapterIds : DeleteAdapter(a) \/ BackoffEnds(a)
    \/ \E p \in Pullers : ListDue(p) \/ StatementFails(p) \/ PullerRestarts(p)
    \/ \E p \in Pullers, a \in AdapterIds :
          PullFromAdapter(p, a) \/ RecordAdapterSuccess(p, a) \/ RecordAdapterFailure(p, a)
    \/ \E p \in Pullers, a \in AdapterIds : DisableAdapter(p, a) \/ EmitAdapterDisabledAudit(p, a)

PullerSpec == PullerInit /\ [][PullerNext]_pullerVars

-----------------------------------------------------------------------------
AtStep(a, step) == \E p \in Pullers : puller[p].at = step /\ puller[p].on = {a}

\* However many replicas pull it, whatever was lost before and however often it was
\* enabled again, each failure at or past the threshold cuts an enabled adapter off,
\* unless that one disabling was interrupted.
FailingAdapterIsCutOff ==
    \A a \in Kept :
        adapters[a].enabled /\ adapters[a].failures >= adapterDisableThreshold =>
            AtStep(a, "disabling") \/ "disabling" \in interrupted[a]

\* An adapter a puller cut off is reported, unless that step was interrupted.
CutOffIsReported ==
    \A a \in cutOff : a \in reported \/ AtStep(a, "auditing") \/ "auditing" \in interrupted[a]

\* What handleAdapterFailure and disableAdapter promise an operator (metrics.go:148).
AdapterCutOffIsSound == FailingAdapterIsCutOff /\ CutOffIsReported
==============================================================================
