------------------------------ MODULE WorkOrder ------------------------------
(***************************************************************************)
(* The work orders of the maintenance service and everybody who writes     *)
(* them: API requests (internal/domain/maintenance), the critical-alert    *)
(* handler (internal/domain/workflows) and the relocation detector         *)
(* (internal/domain/location_detect).                                      *)
(*                                                                         *)
(* A row of work_orders is a record.  Every SQL statement is one step and  *)
(* nothing holds a lock between two statements, so a request that reads    *)
(* the row, decides and writes is two or three steps, and carries what it  *)
(* read in req[r].seen.  A process may die, or a request context be        *)
(* cancelled, between any two of them.                                     *)
(*                                                                         *)
(* Abstracted: titles, codes, schedules and the tenant; sync_version,      *)
(* which every writer bumps and nothing reads; sla_deadline, kept as the   *)
(* priority it was computed from; and of work_order_logs, the entries that *)
(* do not record a decision.                                               *)
(***************************************************************************)
EXTENDS Naturals, Sequences

CONSTANTS
    Orders,      \* work order identities
    Requests,    \* request goroutines, handlers and detector runs
    Users,       \* human users of the tenant
    Approvers,   \* users holding super-admin or ops-admin
    Assignees,   \* users an order is assigned to
    System,      \* the tenant's system user (requestor of automatic orders)
    Priorities,  \* work order priorities, "critical" among them
    None         \* SQL NULL

ASSUME PeopleAssumption ==
    /\ Approvers \subseteq Users
    /\ System \notin Users
    /\ None \notin Users \cup {System}
    /\ None \notin Orders
    /\ Assignees \subseteq Users
    /\ "critical" \in Priorities
    /\ None \notin Priorities

VARIABLES
    row,   \* the work_orders table
    log,   \* the decisions in work_order_logs, oldest entry first
    req    \* what each request is doing

vars == <<row, log, req>>

Actors == Users \cup {System}
Types == {"maintenance", "emergency", "relocation"}
Statuses == {"submitted", "approved", "rejected", "in_progress", "completed", "verified"}
Execs == {"pending", "working", "done"}
Govs == {"submitted", "approved", "rejected", "verified"}

------------------------------------------------------------------------------
(* The three transition tables and the derivation of the unified status. *)

validTransitions ==
    { <<"submitted", "approved">>, <<"submitted", "rejected">>,
      <<"approved", "in_progress">>, <<"in_progress", "completed">>,
      <<"completed", "verified">>, <<"rejected", "submitted">> }

validExecTransitions == { <<"pending", "working">>, <<"working", "done">> }

validGovTransitions ==
    { <<"submitted", "approved">>, <<"submitted", "rejected">>,
      <<"approved", "verified">>, <<"rejected", "submitted">> }

\* The governance column may hold "in_progress" or "completed" in rows that
\* migration 000027 backfilled; they count as approved.
DeriveStatus(e, g) ==
    LET gov == IF g \in {"in_progress", "completed"} THEN "approved" ELSE g
    IN  IF gov \in {"verified", "rejected"} THEN gov
        ELSE IF e = "working" THEN "in_progress"
        ELSE IF e = "done" THEN "completed"
        ELSE gov

GovTargets == {"approved", "rejected", "verified"}
ExecTargets == {"in_progress", "completed"}

\* Transition hands the unified targets over as execution_status values.
ExecOf(target) == IF target = "in_progress" THEN "working" ELSE "done"

------------------------------------------------------------------------------
(* Rows, log entries and requests. *)

Row == [type: Types \cup {None}, status: Statuses \cup {"absent"}, exec: Execs, gov: Govs,
        priority: Priorities \cup {None}, requestor: Actors \cup {None},
        assignee: Assignees \cup {None}, approver: Actors \cup {None},
        sla: Priorities \cup {None}, deleted: BOOLEAN]

NoRow == [type |-> None, status |-> "absent", exec |-> "pending", gov |-> "submitted",
          priority |-> None, requestor |-> None, assignee |-> None, approver |-> None,
          sla |-> None, deleted |-> FALSE]

Decisions == {"approved", "rejected", "in_progress"}
LogEntry == [to: Decisions, by: Actors]

Ops == GovTargets \cup ExecTargets
       \cup {"emergency", "update", "assign", "delete", "autoclose"}

\* "gated": first read passed, or the handler's order inserted.
\* "read": last read passed.  "log": decision written, log entry pending.
Seen == [exec: Execs, gov: Govs, priority: Priorities \cup {None}]
Request == [pc: {"idle", "gated", "read", "log"}, op: Ops,
            order: Orders \cup {None}, user: Actors \cup {None}, seen: Seen]

Glance(o) == [exec |-> row[o].exec, gov |-> row[o].gov, priority |-> row[o].priority]

Nothing == [exec |-> "pending", gov |-> "submitted", priority |-> None]

Free == [pc |-> "idle", op |-> "approved", order |-> None, user |-> None, seen |-> Nothing]

\* GetWorkOrder and every guarded UPDATE see only rows that are not deleted.
Live(o) == row[o].status # "absent" /\ ~row[o].deleted

Idle(r) == req[r].pc = "idle"

Begin(r, op, o, u, pc) ==
    req' = [req EXCEPT ![r] = [pc |-> pc, op |-> op, order |-> o, user |-> u, seen |-> Nothing]]

Goto(r, pc) == req' = [req EXCEPT ![r].pc = pc]

Finish(r) == req' = [req EXCEPT ![r] = Free]

------------------------------------------------------------------------------
(* Creating an order.  The first log entry records no decision. *)

Insert(o, type, u, p, a) ==
    /\ row[o].status = "absent"
    /\ row' = [row EXCEPT ![o] = [NoRow EXCEPT !.type = type, !.status = "submitted",
                                               !.priority = p, !.requestor = u,
                                               !.assignee = a]]
    /\ UNCHANGED log

\* An API user, or an automatic scan acting as the system user: the whole
\* request is one INSERT (with the de-duplication row in one transaction,
\* CreateTx; otherwise on its own).
Create(o, u, type, p, a) ==
    /\ Insert(o, type, u, p, a)
    /\ UNCHANGED req

\* The critical-alert handler inserts the order and then starts it.
CreateEmergency(r, o) ==
    /\ Idle(r)
    /\ Insert(o, "emergency", System, "critical", None)
    /\ Begin(r, "emergency", o, System, "gated")

------------------------------------------------------------------------------
(* Transition: a first read checks the unified status, a second read the   *)
(* status column that is about to move, and an UPDATE guarded by the value *)
(* of that column moves it.                                                *)

\* Mutant: the transition table is not consulted.
Gate_NoTable(r, o, u, target) ==
    /\ Idle(r)
    /\ Live(o)
    /\ target \in GovTargets \cup ExecTargets
    /\ Begin(r, target, o, u, "gated")
    /\ UNCHANGED <<row, log>>

\* The table allows rejected -> submitted; the switch after it does not.
Gate(r, o, u, target) ==
    /\ Idle(r)
    /\ Live(o)
    /\ <<row[o].status, target>> \in validTransitions
    /\ target \in GovTargets \cup ExecTargets
    /\ Begin(r, target, o, u, "gated")
    /\ UNCHANGED <<row, log>>

\* Mutant: approvers may approve their own orders.
validateApproval_Self(u, o) == u \in Approvers

\* The operator of an API request is never uuid.Nil, and the comment a
\* decision requires is an input check: requests without one never get here.
validateApproval(u, o) == u \in Approvers /\ u # row[o].requestor

Read(r) == req' = [req EXCEPT ![r].pc = "read", ![r].seen = Glance(req[r].order)]

ReadGovernance(r) ==
    LET o == req[r].order IN
    /\ req[r].pc = "gated"
    /\ req[r].op \in GovTargets
    /\ Live(o)
    /\ <<row[o].gov, req[r].op>> \in validGovTransitions
    /\ req[r].op \in {"approved", "rejected"} => validateApproval(req[r].user, o)
    /\ Read(r)
    /\ UNCHANGED <<row, log>>

ReadExecution(r) ==
    LET o == req[r].order IN
    /\ req[r].pc = "gated"
    /\ req[r].op \in ExecTargets
    /\ Live(o)
    /\ <<row[o].exec, ExecOf(req[r].op)>> \in validExecTransitions
    /\ Read(r)
    /\ UNCHANGED <<row, log>>

\* Mutant: the UPDATE does not require governance_status = 'submitted'.
StampWorkOrderApproval_NoGuard(r) ==
    LET o == req[r].order IN
    /\ req[r].pc = "read"
    /\ req[r].op = "approved"
    /\ Live(o)
    /\ row' = [row EXCEPT ![o].gov = "approved", ![o].status = "approved",
                          ![o].approver = req[r].user, ![o].sla = req[r].seen.priority]
    /\ Goto(r, "log")
    /\ UNCHANGED log

StampWorkOrderApproval(r) ==
    LET o == req[r].order IN
    /\ req[r].pc = "read"
    /\ req[r].op = "approved"
    /\ Live(o)
    /\ row[o].gov = "submitted"
    /\ row' = [row EXCEPT ![o].gov = "approved", ![o].status = "approved",
                          ![o].approver = req[r].user, ![o].sla = req[r].seen.priority]
    /\ Goto(r, "log")
    /\ UNCHANGED log

UpdateGovernanceStatus(r) ==
    LET o == req[r].order IN
    /\ req[r].pc = "read"
    /\ req[r].op \in {"rejected", "verified"}
    /\ Live(o)
    /\ row[o].gov = req[r].seen.gov
    /\ row' = [row EXCEPT ![o].gov = req[r].op,
                          ![o].status = DeriveStatus(req[r].seen.exec, req[r].op)]
    /\ IF req[r].op = "rejected" THEN Goto(r, "log") ELSE Finish(r)
    /\ UNCHANGED log

\* Mutant: no optimistic lock on execution_status.
UpdateExecutionStatus_NoLock(r) ==
    LET o == req[r].order
        e == ExecOf(req[r].op) IN
    /\ req[r].pc = "read"
    /\ req[r].op \in ExecTargets
    /\ Live(o)
    /\ row' = [row EXCEPT ![o].exec = e, ![o].status = DeriveStatus(e, req[r].seen.gov)]
    /\ Finish(r)
    /\ UNCHANGED log

UpdateExecutionStatus(r) ==
    LET o == req[r].order
        e == ExecOf(req[r].op) IN
    /\ req[r].pc = "read"
    /\ req[r].op \in ExecTargets
    /\ Live(o)
    /\ row[o].exec = req[r].seen.exec
    /\ row' = [row EXCEPT ![o].exec = e, ![o].status = DeriveStatus(e, req[r].seen.gov)]
    /\ Finish(r)
    /\ UNCHANGED log

\* One UPDATE approves and starts; the deadline is that of "critical".
TransitionEmergency(r) ==
    LET o == req[r].order IN
    /\ req[r].pc = "gated"
    /\ req[r].op = "emergency"
    /\ Live(o)
    /\ row[o].type = "emergency"
    /\ row[o].gov = "submitted"
    /\ row[o].exec = "pending"
    /\ row' = [row EXCEPT ![o].gov = "approved", ![o].exec = "working",
                          ![o].status = "in_progress", ![o].approver = req[r].user,
                          ![o].sla = "critical"]
    /\ Goto(r, "log")
    /\ UNCHANGED log

------------------------------------------------------------------------------
(* Edits.  Update and Delete check the status they read and then write     *)
(* without a guard on it; Assign repeats its check in the UPDATE.          *)

GateEdit(r, o, u, op) ==
    /\ Idle(r)
    /\ Live(o)
    /\ row[o].status \in {"submitted", "rejected"}
    /\ Begin(r, op, o, u, "read")
    /\ UNCHANGED <<row, log>>

Update(r) ==
    LET o == req[r].order IN
    /\ req[r].pc = "read"
    /\ req[r].op = "update"
    /\ Live(o)
    /\ \E p \in Priorities, a \in Assignees \cup {row[o].assignee} :
           row' = [row EXCEPT ![o].priority = p, ![o].assignee = a]
    /\ Finish(r)
    /\ UNCHANGED log

Delete(r) ==
    LET o == req[r].order IN
    /\ req[r].pc = "read"
    /\ req[r].op = "delete"
    /\ Live(o)
    /\ row' = [row EXCEPT ![o].deleted = TRUE]
    /\ Finish(r)
    /\ UNCHANGED log

Assignable(o) == Live(o) /\ row[o].status \in {"submitted", "rejected", "approved", "in_progress"}

GateAssign(r, o, u) ==
    /\ Idle(r)
    /\ Assignable(o)
    /\ Begin(r, "assign", o, u, "read")
    /\ UNCHANGED <<row, log>>

AssignWorkOrder(r) ==
    LET o == req[r].order IN
    /\ req[r].pc = "read"
    /\ req[r].op = "assign"
    /\ Assignable(o)
    /\ \E a \in Assignees : row' = [row EXCEPT ![o].assignee = a]
    /\ Finish(r)
    /\ UNCHANGED log

------------------------------------------------------------------------------
(* The relocation detector closes the open relocation orders of an asset it *)
(* found in its new rack: a SELECT, then per row an UPDATE of status alone. *)

\* Mutant: the SELECT forgets type = 'relocation'.
SelectRelocation_AnyType(r, o) ==
    /\ Idle(r)
    /\ Live(o)
    /\ row[o].status \notin {"completed", "verified", "rejected"}
    /\ Begin(r, "autoclose", o, None, "read")
    /\ UNCHANGED <<row, log>>

SelectRelocation(r, o) ==
    /\ Idle(r)
    /\ Live(o)
    /\ row[o].type = "relocation"
    /\ row[o].status \notin {"completed", "verified", "rejected"}
    /\ Begin(r, "autoclose", o, None, "read")
    /\ UNCHANGED <<row, log>>

AutoCloseRelocation(r) ==
    /\ req[r].pc = "read"
    /\ req[r].op = "autoclose"
    /\ row' = [row EXCEPT ![req[r].order].status = "completed"]
    /\ Finish(r)
    /\ UNCHANGED log

------------------------------------------------------------------------------
(* The end of a request. *)

LogTransition(r) ==
    LET entry == [to |-> IF req[r].op = "emergency" THEN "in_progress" ELSE req[r].op,
                  by |-> req[r].user] IN
    /\ req[r].pc = "log"
    /\ log' = [log EXCEPT ![req[r].order] = Append(@, entry)]
    /\ Finish(r)
    /\ UNCHANGED row

\* Any of: a failed check or a guarded UPDATE that matched no row, which the
\* handler answers with an error; a failed statement; a cancelled context; a
\* process that dies.  What was committed stays, the rest never happens.
Abandon(r) ==
    /\ ~Idle(r)
    /\ Finish(r)
    /\ UNCHANGED <<row, log>>

------------------------------------------------------------------------------
Init ==
    /\ row = [o \in Orders |-> NoRow]
    /\ log = [o \in Orders |-> <<>>]
    /\ req = [r \in Requests |-> Free]

Arrive(r, o) ==
    \/ CreateEmergency(r, o)
    \/ SelectRelocation(r, o)
    \/ \E u \in Users :
          \/ \E target \in Statuses : Gate(r, o, u, target)
          \/ \E op \in {"update", "delete"} : GateEdit(r, o, u, op)
          \/ GateAssign(r, o, u)

Proceed(r) ==
    \/ ReadGovernance(r)
    \/ ReadExecution(r)
    \/ StampWorkOrderApproval(r)
    \/ UpdateGovernanceStatus(r)
    \/ UpdateExecutionStatus(r)
    \/ TransitionEmergency(r)
    \/ Update(r)
    \/ Delete(r)
    \/ AssignWorkOrder(r)
    \/ AutoCloseRelocation(r)
    \/ LogTransition(r)
    \/ Abandon(r)

Next ==
    \/ \E o \in Orders, u \in Actors, type \in Types, p \in Priorities,
          a \in Assignees \cup {None} : Create(o, u, type, p, a)
    \/ \E r \in Requests : Proceed(r)
    \/ \E r \in Requests, o \in Orders : Arrive(r, o)

Spec == Init /\ [][Next]_vars
------------------------------------------------------------------------------
(* Properties. *)

TypeOK ==
    /\ row \in [Orders -> Row]
    /\ log \in [Orders -> Seq(LogEntry)]
    /\ req \in [Requests -> Request]

Exists(o) == row[o].status # "absent"
Approved(o) == row[o].gov \in {"approved", "verified"}

\* The unified status is what DeriveStatus makes of the other two columns,
\* although every writer computes it from a row it read earlier
\* (statemachine.go, UpdateExecutionStatus, UpdateGovernanceStatus).
\* Relocation orders are left out: the detector writes their status alone.
DerivedStatus ==
    \A o \in Orders : Exists(o) /\ row[o].type # "relocation"
        => row[o].status = DeriveStatus(row[o].exec, row[o].gov)

\* No work starts on an order nobody approved, whatever requests interleave
\* between the check of the status and the UPDATE of execution_status
\* (TransitionExecution guards its UPDATE on execution_status only).
NoWorkWithoutApproval ==
    \A o \in Orders : row[o].exec # "pending" => Approved(o)

\* A verified order was worked on to the end; the UPDATE of governance_status
\* does not look at execution_status (TransitionGovernance).
VerifiedWorkWasDone ==
    \A o \in Orders : row[o].gov = "verified" /\ row[o].type # "relocation"
        => row[o].exec = "done"

\* Whoever approved an order is entitled to and is not its requestor, except
\* that the system starts the emergency orders it created itself
\* (validateApproval, TransitionEmergencyAtomic).
SegregationOfDuties ==
    \A o \in Orders : Approved(o) =>
        /\ row[o].sla # None
        /\ \/ row[o].approver \in Approvers \ {row[o].requestor}
           \/ /\ row[o].approver = System
              /\ row[o].requestor = System
              /\ row[o].type = "emergency"

\* An order is decided once: of two approvers, an approver and a rejecter, or
\* an approver and the emergency handler, one wins, only the winner leaves an
\* entry in the order's log, and an approval is logged under its approver
\* (StampWorkOrderApproval, UpdateGovernanceStatus and
\* TransitionEmergencyWorkOrder, WHERE governance_status = 'submitted').
DecidedOnce ==
    \A o \in Orders :
        /\ Len(log[o]) <= 1
        /\ \A i \in DOMAIN log[o] : log[o][i].to # "rejected" => log[o][i].by = row[o].approver

\* Who approved an order and the deadline it was given are never rewritten,
\* by a second approval, a retry or a late emergency start.
ApprovalIsFinal ==
    [][\A o \in Orders : Approved(o)
          => row'[o].approver = row[o].approver /\ row'[o].sla = row[o].sla]_vars

\* What the service promises of every order only it writes: the status moves
\* as in OrderLifecycle, whatever requests, handlers and crashes interleave.
Ordinary(o) == row[o].type # "relocation"
lifeOf == [o \in Orders |-> IF Ordinary(o) THEN row[o].status ELSE "absent"]
requestorOf == [o \in Orders |-> IF Ordinary(o) THEN row[o].requestor ELSE None]
approverOf == [o \in Orders |-> IF Ordinary(o) THEN row[o].approver ELSE None]
Lifecycle == INSTANCE OrderLifecycle WITH
    life <- lifeOf, requestor <- requestorOf, approver <- approverOf
ImplementsLifecycle == Lifecycle!LifeSpec

------------------------------------------------------------------------------
(* What makes those properties inductive: what a request still knows about *)
(* the row between its steps.                                              *)

\* Facts about one row.  Only an approval writes the status "approved".
RowInv(o) ==
    /\ ~Exists(o) => row[o] = NoRow
    /\ Exists(o) => /\ row[o].type \in Types
                    /\ row[o].priority \in Priorities
                    /\ row[o].requestor \in Actors
    /\ row[o].status = "approved" => Approved(o)

\* A decision is in the log of a decided order only, at most one, and an
\* approval under the approver's name.
LogInv(o) ==
    \/ log[o] = <<>>
    \/ \E e \in LogEntry : /\ log[o] = <<e>>
                           /\ row[o].gov # "submitted"
                           /\ e.to # "rejected" => Approved(o) /\ e.by = row[o].approver

\* What each operation may rely on when it writes, by what it has checked.
RequestInv(r) ==
    LET q == req[r]
        o == req[r].order IN
    q.pc # "idle" =>
        /\ o \in Orders
        /\ Exists(o)
        /\ q.op = "autoclose" => row[o].type = "relocation"
        /\ q.op = "emergency" => q.user = System /\ row[o].requestor = System
        /\ q.op = "in_progress" => Approved(o)
        /\ q.op = "verified" /\ Ordinary(o) => row[o].exec = "done"
        /\ q.op \in GovTargets => q.user \in Users
        /\ q.pc = "read" =>
              /\ q.op = "approved" => /\ q.user \in Approvers \ {row[o].requestor}
                                      /\ q.seen.priority \in Priorities
              /\ q.op = "rejected" => /\ q.user \in Approvers \ {row[o].requestor}
                                      /\ q.seen.gov = "submitted"
              /\ q.op = "verified" => q.seen.gov = "approved"
              /\ q.op \in ExecTargets =>
                    /\ <<q.seen.exec, ExecOf(q.op)>> \in validExecTransitions
                    /\ q.seen.gov \in {"approved", "verified"}
                    /\ Ordinary(o) => q.seen.gov = "approved"
        /\ q.pc = "log" =>
              /\ q.op \in {"approved", "rejected", "emergency"}
              /\ row[o].gov # "submitted"
              /\ log[o] = <<>>
              /\ q.op # "rejected" => Approved(o) /\ q.user = row[o].approver

\* At most one request has the decision of an order still to log.
OneLogger ==
    \A r, s \in Requests :
        req[r].pc = "log" /\ req[s].pc = "log" /\ req[r].order = req[s].order => r = s

IInv ==
    /\ TypeOK
    /\ DerivedStatus
    /\ NoWorkWithoutApproval
    /\ VerifiedWorkWasDone
    /\ SegregationOfDuties
    /\ \A o \in Orders : RowInv(o) /\ LogInv(o)
    /\ \A r \in Requests : RequestInv(r)
    /\ OneLogger

\* Work follows the approval of someone else and is done before it is verified, on
\* whatever row the requests, the handler and the detector leave.
WorkFollowsApproval == NoWorkWithoutApproval /\ VerifiedWorkWasDone /\ SegregationOfDuties
==============================================================================
