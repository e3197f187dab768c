------------------------------ MODULE AutoOrders ------------------------------
(***************************************************************************)
(* Work orders the system opens by itself (internal/domain/workflows):     *)
(* the daily, weekly and hourly scans of auto_workorders_*.go, and the     *)
(* handlers of scan differences, default BMC passwords and critical        *)
(* alerts.  Every replica runs every scan on its own timer and receives    *)
(* every event (nats.go subscribes without a queue group).                 *)
(*                                                                         *)
(* A reason is what an order would be about: an asset for one type of      *)
(* order, or a key of work_order_dedup.  The scanners differ in what they  *)
(* look at before they open an order and in how they open it:              *)
(*                                                                         *)
(*   "assets"     lists assets without an open order of its type, inserts  *)
(*   "event"      the same probe, for the asset of one event               *)
(*   "emergency"  the same, and then starts the order                      *)
(*   "keys"       lists keys without a row in work_order_dedup, inserts    *)
(*                the order and its key in one transaction                 *)
(*   "quality"    lists without looking, order and key in one transaction  *)
(*   "reviews"    the same, the Batch oldest rows                          *)
(*                                                                         *)
(* A behaviour follows one scanner: their reasons have order types and key *)
(* kinds of their own.  Abstracted: titles, priorities, notices to the     *)
(* administrators, sync versions; the one order checkMissingLocation opens *)
(* for the assets beyond its tenth; tenants, which divide the reasons.     *)
(***************************************************************************)
EXTENDS Naturals, Sequences, FiniteSets

CONSTANTS
    Replicas,
    Reasons,      \* numbered in the order of discovered_at
    Batch,        \* discoveryReviewBatchLimit
    MaxOrders,    \* bound: orders for one reason
    MaxFailures   \* bound: failed statements and crashes

ASSUME AutoAssumption ==
    /\ IsFiniteSet(Replicas)
    /\ Reasons \subseteq Nat
    /\ Reasons # {}
    /\ Batch \in Nat \ {0}
    /\ MaxOrders \in Nat \ {0}
    /\ MaxFailures \in Nat

VARIABLES
    scanner,
    due,       \* reasons the scan's condition holds for
    orders,    \* orders[r]: how far each order about r is, in order of creation
    dedup,     \* dedup[r]: the order the key r belongs to, 0 when there is no row
    job,       \* what each replica is doing
    failures

vars == <<scanner, due, orders, dedup, job, failures>>

Timed == {"assets", "keys", "quality", "reviews"}
Events == {"event", "emergency"}
Keyed == {"keys", "quality", "reviews"}
Probing == {"assets", "event", "emergency"}
Scanners == Timed \cup Events

Status == {"submitted", "started", "ended"}

Job == [pc: {"idle", "create", "insert", "commit", "start"},
        todo: SUBSET Reasons, reason: Reasons, order: 0 .. MaxOrders]

Idle == [pc |-> "idle", todo |-> {}, reason |-> CHOOSE r \in Reasons : TRUE, order |-> 0]

Init ==
    /\ scanner \in Scanners
    /\ due \in SUBSET Reasons
    /\ orders = [r \in Reasons |-> <<>>]
    /\ dedup = [r \in Reasons |-> 0]
    /\ job = [p \in Replicas |-> Idle]
    /\ failures = 0

------------------------------------------------------------------------------
At(p, pc) == job[p].pc = pc

\* The next candidate of the loop, or its end.
Loop(todo) == IF todo = {} THEN Idle ELSE [Idle EXCEPT !.pc = "create", !.todo = todo]

Resume(p) == job' = [job EXCEPT ![p] = Loop(job[p].todo)]
SkipReason(p, r) == job' = [job EXCEPT ![p] = Loop(job[p].todo \ {r})]

\* Mutant: an order counts as open only until somebody starts it.
IsOpen_OnlySubmitted(s) == s = "submitted"

\* status NOT IN ('completed','verified','rejected')
IsOpen(s) == s # "ended"

OpenOrders(r) == {i \in DOMAIN orders[r] : IsOpen(orders[r][i])}

\* Mutant: the scan takes closed orders for open ones.
Candidates_AnyOrder ==
    {r \in due : /\ scanner \in Probing => orders[r] = <<>>
                 /\ scanner = "keys" => dedup[r] = 0}

Candidates ==
    {r \in due : /\ scanner \in Probing => OpenOrders(r) = {}
                 /\ scanner = "keys" => dedup[r] = 0}

Listed ==
    IF scanner = "reviews"
    THEN {r \in Candidates : Cardinality({q \in Candidates : q < r}) < Batch}
    ELSE Candidates

------------------------------------------------------------------------------
(* Finding what to open orders about.                                      *)

\* A scan reads all its rows with one statement; it may find none.
Tick(p) ==
    /\ At(p, "idle")
    /\ scanner \in Timed
    /\ job' = [job EXCEPT ![p] = Loop(Listed)]
    /\ UNCHANGED <<scanner, due, orders, dedup, failures>>

\* An event may be handled when what it reports is over.
HandleEvent(p, r) ==
    /\ At(p, "idle")
    /\ scanner \in Events
    /\ OpenOrders(r) = {}
    /\ job' = [job EXCEPT ![p] = Loop({r})]
    /\ UNCHANGED <<scanner, due, orders, dedup, failures>>

------------------------------------------------------------------------------
(* Opening them.                                                           *)

Add(r) == orders' = [orders EXCEPT ![r] = Append(@, "submitted")]

\* Without a transaction; the handler of a critical alert goes on to start it.
Create(p, r) ==
    /\ At(p, "create")
    /\ r \in job[p].todo
    /\ scanner \notin Keyed
    /\ Len(orders[r]) < MaxOrders
    /\ Add(r)
    /\ IF scanner = "emergency"
       THEN job' = [job EXCEPT ![p] = [job[p] EXCEPT !.pc = "start", !.todo = job[p].todo \ {r},
                                                     !.reason = r, !.order = Len(orders[r]) + 1]]
       ELSE SkipReason(p, r)
    /\ UNCHANGED <<scanner, due, dedup, failures>>

\* The bound on the orders of one reason.
SkipAtBound(p, r) ==
    /\ At(p, "create")
    /\ r \in job[p].todo
    /\ scanner \notin Keyed
    /\ Len(orders[r]) = MaxOrders
    /\ SkipReason(p, r)
    /\ UNCHANGED <<scanner, due, orders, dedup, failures>>

\* The order exists in the transaction only.
CreateTx(p, r) ==
    /\ At(p, "create")
    /\ r \in job[p].todo
    /\ scanner \in Keyed
    /\ job' = [job EXCEPT ![p] = [job[p] EXCEPT !.pc = "insert", !.todo = job[p].todo \ {r}, !.reason = r]]
    /\ UNCHANGED <<scanner, due, orders, dedup, failures>>

\* INSERT ... ON CONFLICT DO NOTHING waits for a transaction that has inserted the
\* same key, and inserts nothing when the row is there: the transaction rolls back.
InsertDedup(p) ==
    /\ At(p, "insert")
    /\ \A q \in Replicas : ~(At(q, "commit") /\ job[q].reason = job[p].reason)
    /\ IF dedup[job[p].reason] = 0
       THEN job' = [job EXCEPT ![p].pc = "commit"]
       ELSE Resume(p)
    /\ UNCHANGED <<scanner, due, orders, dedup, failures>>

Commit(p) ==
    /\ At(p, "commit")
    /\ Add(job[p].reason)
    /\ dedup' = [dedup EXCEPT ![job[p].reason] = IF @ = 0 THEN Len(orders[job[p].reason]) + 1 ELSE @]
    /\ Resume(p)
    /\ UNCHANGED <<scanner, due, failures>>

\* No row matches when somebody has decided the order already: that is a success.
TransitionEmergencyAtomic(p) ==
    /\ At(p, "start")
    /\ LET r == job[p].reason
           o == job[p].order
       IN orders' = IF orders[r][o] = "submitted" THEN [orders EXCEPT ![r][o] = "started"] ELSE orders
    /\ Resume(p)
    /\ UNCHANGED <<scanner, due, dedup, failures>>

------------------------------------------------------------------------------
(* What goes wrong: one row is skipped and the loop goes on, or the        *)
(* process dies.  Either way an open transaction is rolled back.           *)

Fail == failures < MaxFailures /\ failures' = failures + 1

LogAndGoOn(p) ==
    /\ Fail
    /\ \/ At(p, "create") /\ \E r \in job[p].todo : SkipReason(p, r)
       \/ ~At(p, "create") /\ ~At(p, "idle") /\ Resume(p)
    /\ UNCHANGED <<scanner, due, orders, dedup>>

Crash(p) ==
    /\ ~At(p, "idle")
    /\ Fail
    /\ job' = [job EXCEPT ![p] = Idle]
    /\ UNCHANGED <<scanner, due, orders, dedup>>

------------------------------------------------------------------------------
(* The world and the operators.                                            *)

\* Rows become overdue in the order they were discovered, each once; an asset
\* may come back.
Appear(r) ==
    /\ scanner \in Timed
    /\ r \notin due
    /\ scanner = "reviews" => orders[r] = <<>> /\ \A q \in due : q < r
    /\ due' = due \cup {r}
    /\ UNCHANGED <<scanner, orders, dedup, job, failures>>

Clear(r) ==
    /\ scanner \in Timed
    /\ r \in due
    /\ due' = due \ {r}
    /\ UNCHANGED <<scanner, orders, dedup, job, failures>>

\* Approved by a person.
Approve(r, i) ==
    /\ orders[r][i] = "submitted"
    /\ orders' = [orders EXCEPT ![r][i] = "started"]
    /\ UNCHANGED <<scanner, due, dedup, job, failures>>

\* Rejected, done or deleted: none of them comes back (service.go:205-214 turns a
\* resubmission away, though the table allows it).
End(r, i) ==
    /\ orders[r][i] # "ended"
    /\ orders' = [orders EXCEPT ![r][i] = "ended"]
    /\ UNCHANGED <<scanner, due, dedup, job, failures>>

Step(p) ==
    \/ \E r \in Reasons : Create(p, r) \/ SkipAtBound(p, r) \/ CreateTx(p, r)
    \/ InsertDedup(p)
    \/ Commit(p)
    \/ TransitionEmergencyAtomic(p)

Next ==
    \/ \E p \in Replicas : Tick(p) \/ Step(p) \/ LogAndGoOn(p) \/ Crash(p)
    \/ \E p \in Replicas, r \in Reasons : HandleEvent(p, r)
    \/ \E r \in Reasons : Appear(r) \/ Clear(r)
    \/ \E r \in Reasons : \E i \in DOMAIN orders[r] : Approve(r, i) \/ End(r, i)

\* Statements end and timers come round; events, people and failures owe nothing.
Fairness == \A p \in Replicas : WF_vars(Step(p)) /\ WF_vars(Tick(p))

Spec == Init /\ [][Next]_vars /\ Fairness

------------------------------------------------------------------------------
TypeOK ==
    /\ scanner \in Scanners
    /\ due \in SUBSET Reasons
    /\ orders \in [Reasons -> Seq(Status)]
    /\ \A r \in Reasons : Len(orders[r]) <= MaxOrders
    /\ dedup \in [Reasons -> 0 .. MaxOrders]
    /\ job \in [Replicas -> Job]
    /\ failures \in 0 .. MaxFailures

\* auto_workorders_governance.go:230 "a crash between them can never produce an
\* orphan WO or a ghost dedup entry", auto_workorders_discovery.go:129: however
\* the scans of the replicas overlap, fail and crash, a key has an order exactly
\* when it has its row, and never a second order.
OrderAndKeyTogether ==
    scanner \in Keyed =>
        \A r \in Reasons : dedup[r] = Len(orders[r]) /\ Len(orders[r]) <= 1

\* The scans that probe and insert in two statements: replicas that probe at once
\* open an order each, but no overlap of ticks, failures and closed orders makes
\* one replica add to an order of its own that is still open.
OneOpenOrderPerReplica ==
    scanner \in Probing =>
        \A r \in Reasons :
            Cardinality({i \in DOMAIN orders[r] : orders[r][i] # "ended"}) <= Cardinality(Replicas)

\* Orders of emergencies nobody has started and no handler is about to start.
Stranded(r) ==
    {i \in DOMAIN orders[r] :
        /\ orders[r][i] = "submitted"
        /\ \A p \in Replicas : ~(At(p, "start") /\ job[p].reason = r /\ job[p].order = i)}

\* notifications.go:199-203: an emergency order is not left waiting for approval,
\* one at most for each statement or process that failed.
StrandedByFailureOnly ==
    scanner = "emergency" => \A r \in Reasons : Cardinality(Stranded(r)) <= failures

\* A reason that persists is not left alone: an asset has an open order again and
\* again when people close them (up to the bound of the model), a key gets its one
\* order.  Failures and crashes put it off to a later scan.  A discovery gets its
\* order only if it comes among the Batch oldest and stays there: rows that have
\* their order keep their place, so that those behind them may wait for ever
\* (auto_workorders_discovery.go:32-36, discovery.sql:74-79).  Events owe nothing.
PersistentReasonGetsAnOrder ==
    \A r \in Reasons :
        []<>(\/ r \notin due
             \/ scanner \in Events
             \/ scanner = "reviews" /\ r \notin Listed
             \/ scanner \in Keyed /\ orders[r] # <<>>
             \/ scanner \in Probing /\ \E i \in DOMAIN orders[r] : orders[r][i] # "ended"
             \/ Len(orders[r]) = MaxOrders)

\* Whatever overlaps, fails or crashes, no scan leaves orders nobody asked for: one
\* of each key, one open order of each replica, one stranded order of each failure.
NoSurplusOrders == OrderAndKeyTogether /\ OneOpenOrderPerReplica /\ StrandedByFailureOnly
==============================================================================
