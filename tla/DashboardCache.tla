---------------------------- MODULE DashboardCache ----------------------------
(***************************************************************************)
(* The dashboard statistics of each tenant, cached in Redis                *)
(* (internal/domain/dashboard).  GetStats answers from the cache, or runs  *)
(* one query per field, one after another, and stores the result with a    *)
(* TTL.  Whoever changes a counted table commits, then publishes an event; *)
(* the invalidation subscriber is to drop the tenant's entry.              *)
(*                                                                         *)
(* The value of a field is the number of changes made to it so far;        *)
(* replaced[t][f][v] is the time since value v was replaced, counted up to *)
(* Bound, one past the longest a value may be served.  The clock is the    *)
(* step Tick, which ages everything and is never exhausted.                *)
(*                                                                         *)
(* Bounds: MaxChanges per field, MaxFailures for failed statements,        *)
(* commands, deaths and lost events.                                       *)
(***************************************************************************)
EXTENDS EventBus

CONSTANTS
    Tenants,
    Readers,      \* GetStats requests, on any replica
    Fields,       \* the fields of Stats, a sequence in the order of the queries
    Soft,         \* the fields with a budget of their own, which degrade to zero
    SubjectOf,    \* the subject of the event that follows a change of a field
    statsCacheTTL,
    MaxCompute,   \* the longest a request may take
    MaxChanges, MaxFailures

Stat == {Fields[i] : i \in DOMAIN Fields}

ASSUME DashboardAssumption ==
    /\ Fields \in Seq(STRING) /\ Fields # <<>>
    /\ \A i, j \in DOMAIN Fields : Fields[i] = Fields[j] => i = j
    /\ Soft \subseteq Stat
    /\ NoTenant \notin Tenants
    /\ SubjectOf \in [Stat -> Seq(STRING)]
    /\ statsCacheTTL \in Nat \ {0}
    /\ {MaxCompute, MaxChanges, MaxFailures} \subseteq Nat

VARIABLES
    truth,      \* what the queries would answer now
    replaced,   \* the time since each value was replaced
    cache,      \* the Redis entry of each tenant
    reader,     \* what each request is doing
    owed,       \* changes committed whose event has not been published
    flight,     \* messages the bus has taken and not handed out
    failures

vars == <<truth, replaced, cache, reader, owed, flight, failures>>

Bound == statsCacheTTL + MaxCompute + 1
Value == 0 .. MaxChanges

\* left is what remains of the TTL; 0 is no entry.  bad holds the fields that
\* degraded to zero.
Entry == [val : [Stat -> Value], bad : SUBSET Soft, left : 0 .. statsCacheTTL]
NoEntry == [val |-> [f \in Stat |-> 0], bad |-> {}, left |-> 0]

\* at is the number of queries done; age is how long the computation has run.
Reader == [tenant : Tenants \cup {NoTenant}, at : 0 .. Len(Fields), age : 0 .. MaxCompute,
           val : [Stat -> Value], bad : SUBSET Soft]
Asked(t) == [tenant |-> t, at |-> 0, age |-> 0, val |-> [f \in Stat |-> 0], bad |-> {}]
Idle == Asked(NoTenant)

Change == [tenant : Tenants, field : Stat]
Message == [subject : {PublishedSubject(SubjectOf[f], t) : f \in Stat, t \in Tenants},
            tenant : Tenants]

TypeOK ==
    /\ truth \in [Tenants -> [Stat -> Value]]
    /\ replaced \in [Tenants -> [Stat -> [Value -> 0 .. Bound]]]
    /\ cache \in [Tenants -> Entry]
    /\ reader \in [Readers -> Reader]
    /\ owed \subseteq Change
    /\ flight \subseteq Message
    /\ failures \in 0 .. MaxFailures

Init ==
    /\ truth = [t \in Tenants |-> [f \in Stat |-> 0]]
    /\ replaced = [t \in Tenants |-> [f \in Stat |-> [v \in Value |-> 0]]]
    /\ cache = [t \in Tenants |-> NoEntry]
    /\ reader = [r \in Readers |-> Idle]
    /\ owed = {}
    /\ flight = {}
    /\ failures = 0

MayFail == failures < MaxFailures /\ failures' = failures + 1

------------------------------------------------------------------------------
(* GetStats. *)

\* Mutant: a hit renews the entry.
Hit_Renews(r, t) ==
    /\ reader[r] = Idle
    /\ cache[t].left > 0
    /\ cache' = [cache EXCEPT ![t] = [cache[t] EXCEPT !.left = statsCacheTTL]]
    /\ UNCHANGED <<truth, replaced, reader, owed, flight, failures>>

\* The cached value is the answer; nothing changes.
Hit(r, t) ==
    /\ reader[r] = Idle
    /\ cache[t].left > 0
    /\ UNCHANGED vars

\* No entry, or Redis fails to answer.
Miss(r, t) ==
    /\ reader[r] = Idle
    /\ \/ cache[t].left = 0 /\ UNCHANGED failures
       \/ cache[t].left > 0 /\ MayFail
    /\ reader' = [reader EXCEPT ![r] = Asked(t)]
    /\ UNCHANGED <<truth, replaced, cache, owed, flight>>

Computing(r) == reader[r].tenant # NoTenant

Counted(x, val, bad) ==
    [tenant |-> x.tenant, at |-> x.at + 1, age |-> x.age, val |-> val, bad |-> bad]

\* The next query.  It answers, or its own budget runs out: a soft field is
\* then zero.
Count(r) ==
    LET x == reader[r]
        f == Fields[x.at + 1] IN
    /\ Computing(r)
    /\ x.at < Len(Fields)
    /\ \/ /\ reader' = [reader EXCEPT ![r] =
                Counted(x, [x.val EXCEPT ![f] = truth[x.tenant][f]], x.bad)]
          /\ UNCHANGED failures
       \/ /\ f \in Soft
          /\ MayFail
          /\ reader' = [reader EXCEPT ![r] = Counted(x, x.val, x.bad \cup {f})]
    /\ UNCHANGED <<truth, replaced, cache, owed, flight>>

\* The write to Redis is best effort, and does not look at what happened since
\* the miss.
Store(r) ==
    LET x == reader[r] IN
    /\ Computing(r)
    /\ x.at = Len(Fields)
    /\ \/ /\ cache' = [cache EXCEPT ![x.tenant] = [val |-> x.val, bad |-> x.bad,
                                                   left |-> statsCacheTTL]]
          /\ UNCHANGED failures
       \/ MayFail /\ UNCHANGED cache
    /\ reader' = [reader EXCEPT ![r] = Idle]
    /\ UNCHANGED <<truth, replaced, owed, flight>>

\* A query of a hard field fails, or the request ends early: no answer.
Abandon(r) ==
    /\ Computing(r)
    /\ MayFail
    /\ reader' = [reader EXCEPT ![r] = Idle]
    /\ UNCHANGED <<truth, replaced, cache, owed, flight>>

------------------------------------------------------------------------------
(* Changes and their events. *)

Commit(t, f) ==
    /\ truth[t][f] < MaxChanges
    /\ truth' = [truth EXCEPT ![t] = [truth[t] EXCEPT ![f] = truth[t][f] + 1]]
    /\ owed' = owed \cup {[tenant |-> t, field |-> f]}
    /\ UNCHANGED <<replaced, cache, reader, flight, failures>>

\* publishEvent: after the commit; an error is logged and forgotten.
Publish(c) ==
    /\ c \in owed
    /\ owed' = owed \ {c}
    /\ \/ /\ flight' = flight \cup {[subject |-> PublishedSubject(SubjectOf[c.field], c.tenant),
                                     tenant |-> c.tenant]}
          /\ UNCHANGED failures
       \/ MayFail /\ UNCHANGED flight
    /\ UNCHANGED <<truth, replaced, cache, reader>>

\* The subscriptions of the invalidation subscriber: one per subject.
invalidationSubjects == {SubjectOf[f] : f \in Stat}

\* onEvent and Invalidate: an event without a tenant is skipped.
DropsEntryOf(event, t) ==
    /\ \E p \in invalidationSubjects : Matches(p, event.subject)
    /\ t = event.tenant

\* The bus hands a message to the subscriptions that match it; Redis may fail,
\* and the message may find no connection.
Deliver(m) ==
    /\ m \in flight
    /\ flight' = flight \ {m}
    /\ \/ /\ cache' = [t \in Tenants |-> IF DropsEntryOf(Received(m), t) THEN NoEntry ELSE cache[t]]
          /\ UNCHANGED failures
       \/ MayFail /\ UNCHANGED cache
    /\ UNCHANGED <<truth, replaced, reader, owed>>

------------------------------------------------------------------------------
(* Time. *)

Capped(n) == IF n < Bound THEN n + 1 ELSE Bound

\* Mutant: an entry that has run out is not removed.
Tick_Keeps ==
    /\ \A r \in Readers : Computing(r) => reader[r].age < MaxCompute
    /\ replaced' = [t \in Tenants |-> [f \in Stat |-> [v \in Value |->
            IF v < truth[t][f] THEN Capped(replaced[t][f][v]) ELSE 0]]]
    /\ cache' = [t \in Tenants |->
            IF cache[t].left > 1 THEN [cache[t] EXCEPT !.left = cache[t].left - 1] ELSE cache[t]]
    /\ reader' = [r \in Readers |->
            IF Computing(r) THEN [reader[r] EXCEPT !.age = reader[r].age + 1] ELSE reader[r]]
    /\ UNCHANGED <<truth, owed, flight, failures>>

\* Values that are not current grow older, entries run out, requests run on.
Tick ==
    /\ \A r \in Readers : Computing(r) => reader[r].age < MaxCompute
    /\ replaced' = [t \in Tenants |-> [f \in Stat |-> [v \in Value |->
            IF v < truth[t][f] THEN Capped(replaced[t][f][v]) ELSE 0]]]
    /\ cache' = [t \in Tenants |->
            IF cache[t].left > 1 THEN [cache[t] EXCEPT !.left = cache[t].left - 1] ELSE NoEntry]
    /\ reader' = [r \in Readers |->
            IF Computing(r) THEN [reader[r] EXCEPT !.age = reader[r].age + 1] ELSE reader[r]]
    /\ UNCHANGED <<truth, owed, flight, failures>>

GetStats(r) ==
    \/ \E t \in Tenants : Hit(r, t) \/ Miss(r, t)
    \/ Count(r) \/ Store(r) \/ Abandon(r)

Next ==
    \/ \E r \in Readers : GetStats(r)
    \/ \E t \in Tenants, f \in Stat : Commit(t, f)
    \/ \E c \in owed : Publish(c)
    \/ \E m \in flight : Deliver(m)
    \/ Tick

\* Time passes, and a request that has begun goes on.
Fairness == WF_vars(Tick) /\ \A r \in Readers : WF_vars(Count(r) \/ Store(r))

Spec == Init /\ [][Next]_vars /\ Fairness
------------------------------------------------------------------------------
(* Properties. *)

\* What the cache may answer for a field was true within the last TTL and the
\* time one request takes, however reads, changes, stores and invalidations
\* interleave: a store that lands after the invalidation of a change keeps the
\* old numbers no longer than that.
ServedWithinTTL ==
    \A t \in Tenants, f \in Stat :
        cache[t].left > 0 /\ f \notin cache[t].bad
            => replaced[t][f][cache[t].val[f]] <= statsCacheTTL + MaxCompute

\* When the changes and the failures stop, the cache converges to the database:
\* no stale number and no degraded tile stays for good.
Fresh(t) == cache[t].left > 0 => cache[t].val = truth[t] /\ cache[t].bad = {}
ConvergesToTruth == <>[](\A t \in Tenants : Fresh(t))
==============================================================================
