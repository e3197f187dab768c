------------------------------- MODULE SlaSweep -------------------------------
(***************************************************************************)
(* The SLA sweep (internal/domain/workflows/sla.go) over the work orders   *)
(* it watches.  Every server runs one sweeper: at each tick it marks the   *)
(* overdue orders with one UPDATE ... RETURNING, tells the assignee of     *)
(* each returned order, and then does the same for the orders in the last  *)
(* quarter of their time.  The mark is committed before the first notice   *)
(* is written, so a server that dies in between loses the notices.         *)
(*                                                                         *)
(* An order is what the sweep's WHERE clauses read; sla_breached and       *)
(* sla_warning_sent are the sets in marked.  WorkOrder has the approval    *)
(* rules, which the steps of an order here leave out.                      *)
(*                                                                         *)
(* Bounds: MaxTime caps the clock, MaxFailures the failed statements and   *)
(* deaths.                                                                 *)
(***************************************************************************)
EXTENDS Naturals

CONSTANTS
    Orders,      \* work orders
    Sweepers,    \* the sweep goroutine of each replica
    Users,       \* assignees
    None,        \* SQL NULL
    Priorities,  \* work order priorities, "critical" among them
    Sla,         \* slaDurations: the time an approved order has, by priority
    Interval,    \* the ticker's interval
    MaxTime, MaxFailures

\* The shortest SLA is four hours and the ticker fires every minute.
ASSUME SlaAssumption ==
    /\ Interval \in Nat \ {0}
    /\ "critical" \in Priorities
    /\ Sla \in [Priorities -> Nat]
    /\ \A p \in Priorities : 4 * Interval <= Sla[p]
    /\ None \notin Users
    /\ {MaxTime, MaxFailures} \subseteq Nat

VARIABLES
    now,       \* the clock
    order,     \* the columns of work_orders the sweep reads
    marked,    \* by kind, the orders whose sla_* flag is set
    nobody,    \* by kind, the orders that had no assignee when they were marked
    told,      \* by kind and order, the rows written to notifications
    sweep,     \* what each sweeper is doing
    failures   \* failed statements and deaths so far

vars == <<now, order, marked, nobody, told, sweep, failures>>

Kinds == {"sla_breach", "sla_warning"}
Statuses == {"submitted", "approved", "in_progress", "completed", "deleted"}
Time == 0 .. MaxTime

\* since is approved_at, due is sla_deadline; both are set by the approval.
Order == [status : Statuses, priority : Priorities, since : Nat, due : Nat,
          assignee : Users \cup {None}]

\* "breach" and "warn": the UPDATE of that kind is done and hand holds the
\* returned orders whose assignee has not been told.
PCs == {"down", "waiting", "breach", "warn"}
Sweep == [pc : PCs, hand : SUBSET Orders, next : Nat]

Fresh == [pc |-> "waiting", hand |-> {}, next |-> now + Interval]

Open(o) == order[o].status \in {"approved", "in_progress"}

\* sla_deadline < now()
Overdue(o) == Open(o) /\ order[o].due < now

\* sla_deadline - (sla_deadline - approved_at) * 0.25 < now()
Closing(o) == Open(o) /\ 3 * order[o].due + order[o].since < 4 * now

\* Mutant: the UPDATE does not ask for NOT sla_breached.
Eligible_Again(k) == {o \in Orders : IF k = "sla_breach" THEN Overdue(o) ELSE Closing(o)}

\* Mutant: the UPDATE takes only orders with an assignee.
Eligible_Assigned(k) ==
    {o \in Orders : (IF k = "sla_breach" THEN Overdue(o) ELSE Closing(o))
                    /\ order[o].assignee # None} \ marked[k]

Eligible(k) ==
    {o \in Orders : IF k = "sla_breach" THEN Overdue(o) ELSE Closing(o)} \ marked[k]

PcOf(k) == IF k = "sla_breach" THEN "breach" ELSE "warn"

\* The sweepers that still have to tell of o.
Holders(k, o) == {s \in Sweepers : sweep[s].pc = PcOf(k) /\ o \in sweep[s].hand}

TypeOK ==
    /\ now \in Time
    /\ order \in [Orders -> Order]
    /\ marked \in [Kinds -> SUBSET Orders]
    /\ nobody \in [Kinds -> SUBSET Orders]
    /\ told \in [Kinds -> [Orders -> Nat]]
    /\ sweep \in [Sweepers -> Sweep]
    /\ failures \in 0 .. MaxFailures

Init ==
    /\ now = 0
    /\ order \in [Orders -> [status : {"submitted"}, priority : Priorities, since : {0},
                             due : {0}, assignee : Users \cup {None}]]
    /\ marked = [k \in Kinds |-> {}]
    /\ nobody = [k \in Kinds |-> {}]
    /\ told = [k \in Kinds |-> [o \in Orders |-> 0]]
    /\ sweep = [s \in Sweepers |-> [pc |-> "waiting", hand |-> {}, next |-> Interval]]
    /\ failures = 0

------------------------------------------------------------------------------
(* What happens to an order meanwhile. *)

Place(o, x) == order' = [order EXCEPT ![o] = x]

SLADeadline(p) == now + Sla[p]

\* The approval writes approved_at and the deadline.
StampWorkOrderApproval(o) ==
    /\ order[o].status = "submitted"
    /\ Place(o, [order[o] EXCEPT !.status = "approved", !.since = now,
                                 !.due = SLADeadline(order[o].priority)])
    /\ UNCHANGED <<now, marked, nobody, told, sweep, failures>>

\* The alert handler approves and starts at once, with the deadline of
\* "critical" whatever the priority says.
EmergencyStart(o) ==
    /\ order[o].status = "submitted"
    /\ Place(o, [order[o] EXCEPT !.status = "in_progress", !.since = now,
                                 !.due = SLADeadline("critical")])
    /\ UNCHANGED <<now, marked, nobody, told, sweep, failures>>

Advance(o) ==
    /\ \/ order[o].status = "approved" /\ Place(o, [order[o] EXCEPT !.status = "in_progress"])
       \/ order[o].status = "in_progress" /\ Place(o, [order[o] EXCEPT !.status = "completed"])
    /\ UNCHANGED <<now, marked, nobody, told, sweep, failures>>

AssignWorkOrder(o, u) ==
    /\ order[o].status \in {"submitted", "approved", "in_progress"}
    /\ Place(o, [order[o] EXCEPT !.assignee = u])
    /\ UNCHANGED <<now, marked, nobody, told, sweep, failures>>

\* A delete that checked a submitted order may land on one approved since.
SoftDeleteWorkOrder(o) ==
    /\ order[o].status # "deleted"
    /\ Place(o, [order[o] EXCEPT !.status = "deleted"])
    /\ UNCHANGED <<now, marked, nobody, told, sweep, failures>>

------------------------------------------------------------------------------
(* One tick: checkSLABreaches, then checkSLAWarnings. *)

\* The order in which a tick runs the two: breaches when the timer fires,
\* warnings when every breach notice has been tried.
Turn(s, k) ==
    IF k = "sla_breach"
    THEN sweep[s].pc = "waiting" /\ sweep[s].next <= now
    ELSE sweep[s].pc = "breach" /\ sweep[s].hand = {}

NextTick(s, k) == IF k = "sla_breach" THEN now + Interval ELSE sweep[s].next

\* One UPDATE marks every eligible order.  Those without an assignee are
\* returned too, but nobody is told of them.
Mark(s, k) ==
    LET hit == Eligible(k)
        mine == {o \in hit : order[o].assignee # None} IN
    /\ Turn(s, k)
    /\ marked' = [marked EXCEPT ![k] = marked[k] \cup hit]
    /\ nobody' = [nobody EXCEPT ![k] = nobody[k] \cup (hit \ mine)]
    /\ sweep' = [sweep EXCEPT ![s] = [pc |-> PcOf(k), hand |-> mine, next |-> NextTick(s, k)]]
    /\ UNCHANGED <<now, order, told, failures>>

\* The UPDATE fails: nothing is marked and the tick goes on.
MarkFails(s, k) ==
    /\ Turn(s, k)
    /\ failures < MaxFailures
    /\ failures' = failures + 1
    /\ sweep' = [sweep EXCEPT ![s] = [pc |-> PcOf(k), hand |-> {}, next |-> NextTick(s, k)]]
    /\ UNCHANGED <<now, order, marked, nobody, told>>

Drop(s, o) == sweep' = [sweep EXCEPT ![s] = [pc |-> sweep[s].pc, hand |-> sweep[s].hand \ {o},
                                             next |-> sweep[s].next]]

\* warnNotify: the INSERT into notifications.  The event that follows it
\* only feeds the browser.
Tell(s, k, o) ==
    /\ s \in Holders(k, o)
    /\ told' = [told EXCEPT ![k] = [told[k] EXCEPT ![o] = told[k][o] + 1]]
    /\ Drop(s, o)
    /\ UNCHANGED <<now, order, marked, nobody, failures>>

\* The row could not be scanned or the INSERT failed; both are only logged.
TellFails(s, k, o) ==
    /\ s \in Holders(k, o)
    /\ failures < MaxFailures
    /\ failures' = failures + 1
    /\ Drop(s, o)
    /\ UNCHANGED <<now, order, marked, nobody, told>>

EndTick(s) ==
    /\ sweep[s].pc = "warn"
    /\ sweep[s].hand = {}
    /\ sweep' = [sweep EXCEPT ![s] = [pc |-> "waiting", hand |-> {}, next |-> sweep[s].next]]
    /\ UNCHANGED <<now, order, marked, nobody, told, failures>>

Die(s) ==
    /\ sweep[s].pc # "down"
    /\ failures < MaxFailures
    /\ failures' = failures + 1
    /\ sweep' = [sweep EXCEPT ![s] = [pc |-> "down", hand |-> {}, next |-> 0]]
    /\ UNCHANGED <<now, order, marked, nobody, told>>

\* A new ticker fires for the first time one interval after the start.
StartSLAChecker(s) ==
    /\ sweep[s].pc = "down"
    /\ sweep' = [sweep EXCEPT ![s] = Fresh]
    /\ UNCHANGED <<now, order, marked, nobody, told, failures>>

\* A tick is not late and is over before the next one: the assumption on the
\* servers that are up.  One that is down may stay down.
OnTime == \A s \in Sweepers :
    sweep[s].pc = "down" \/ (sweep[s].pc = "waiting" /\ now < sweep[s].next)

Tick ==
    /\ now < MaxTime
    /\ OnTime
    /\ now' = now + 1
    /\ UNCHANGED <<order, marked, nobody, told, sweep, failures>>

Lifecycle(o) ==
    \/ StampWorkOrderApproval(o) \/ EmergencyStart(o) \/ Advance(o) \/ SoftDeleteWorkOrder(o)
    \/ \E u \in Users : AssignWorkOrder(o, u)

Work(s) ==
    \/ EndTick(s)
    \/ \E k \in Kinds : Mark(s, k) \/ \E o \in Orders : Tell(s, k, o)

Next ==
    \/ \E o \in Orders : Lifecycle(o)
    \/ \E s \in Sweepers :
        \/ Work(s) \/ Die(s) \/ StartSLAChecker(s)
        \/ \E k \in Kinds : MarkFails(s, k) \/ \E o \in Orders : TellFails(s, k, o)
    \/ Tick

\* The servers and the clock: the tickers fire, a server that died is started
\* again, time passes.  Orders need not move.
System == (\E s \in Sweepers : Work(s) \/ StartSLAChecker(s)) \/ Tick

Fairness == WF_vars(System)

Spec == Init /\ [][Next]_vars /\ Fairness
------------------------------------------------------------------------------
(* Properties. *)

\* Nobody is told twice of one breach or one warning, although every replica
\* sweeps all orders and any of them may be restarted in the middle: the claim
\* of the comment on checkSLABreaches, that two schedulers (or a restart)
\* cannot publish the same notice twice.
ToldAtMostOnce == \A k \in Kinds, o \in Orders : told[k][o] <= 1

\* A notice is only ever lost to a failure: without one, every marked order
\* that had an assignee has been reported, or a sweeper still holds it.
LostOnlyByFailure ==
    failures = 0 =>
        \A k \in Kinds : \A o \in marked[k] \ nobody[k] :
            told[k][o] = 1 \/ Holders(k, o) # {}

\* While no statement fails and no server dies, an order is warned about
\* before it is breached, although a tick looks for breaches first and the
\* warning's UPDATE does not ask whether the deadline has passed.
WarnedBeforeBreached == failures = 0 => marked["sla_breach"] \subseteq marked["sla_warning"]

\* An order that stays open past its deadline is marked in the end, whatever
\* failed or died on the way.
OverdueIsMarked ==
    \A o \in Orders : Overdue(o) ~> (o \in marked["sla_breach"] \/ ~Open(o))

\* Every breach and every warning is told once, failures aside.
NoticesAreExact == ToldAtMostOnce /\ LostOnlyByFailure
==============================================================================
