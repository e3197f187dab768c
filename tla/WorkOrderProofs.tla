--------------------------- MODULE WorkOrderProofs ---------------------------
(***************************************************************************)
(* The properties of WorkOrder for every set of orders, requests, users    *)
(* and priorities.                                                         *)
(*                                                                         *)
(* The argument: a request relies, when it writes, only on facts about the *)
(* row that no other request can take back.  Evolves says which facts      *)
(* those are; every statement that writes a row makes it evolve.           *)
(***************************************************************************)
EXTENDS WorkOrder, TLAPS

\* What a step may do to a row another request is looking at: the row stays,
\* its type and requestor too, a decision is not taken back, nor an approver
\* replaced, and finished work stays finished.
Evolves(o) ==
    /\ Exists(o) => /\ Exists(o)'
                    /\ row'[o].type = row[o].type
                    /\ row'[o].requestor = row[o].requestor
    /\ Approved(o) => Approved(o)' /\ row'[o].approver = row[o].approver
    /\ row[o].gov # "submitted" => row'[o].gov # "submitted"
    /\ row[o].exec = "done" => row'[o].exec = "done"

\* Everything IInv says of an order, its requests left aside.
OrderInv(o) ==
    /\ Exists(o) /\ Ordinary(o) => row[o].status = DeriveStatus(row[o].exec, row[o].gov)
    /\ row[o].exec # "pending" => Approved(o)
    /\ row[o].gov = "verified" /\ Ordinary(o) => row[o].exec = "done"
    /\ Approved(o) =>
        /\ row[o].sla # None
        /\ \/ row[o].approver \in Approvers \ {row[o].requestor}
           \/ /\ row[o].approver = System
              /\ row[o].requestor = System
              /\ row[o].type = "emergency"
    /\ RowInv(o)

\* IInv is TypeOK and its parts order by order and request by request.
LEMMA IInvByParts ==
    IInv <=> /\ TypeOK
             /\ \A o \in Orders : OrderInv(o) /\ LogInv(o)
             /\ \A r \in Requests : RequestInv(r)
             /\ OneLogger
  BY DEF IInv, OrderInv, DerivedStatus, NoWorkWithoutApproval, VerifiedWorkWasDone,
         SegregationOfDuties, Ordinary

\* The same of the state after a step.
LEMMA IInvPrimeByParts ==
    ASSUME TypeOK', \A o \in Orders : OrderInv(o)' /\ LogInv(o)',
           \A r \in Requests : RequestInv(r)', OneLogger'
    PROVE  IInv'
  BY DEF IInv, OrderInv, DerivedStatus, NoWorkWithoutApproval, VerifiedWorkWasDone,
         SegregationOfDuties, Ordinary

\* A request that does nothing keeps what it knows while rows evolve.
LEMMA BystanderKeepsKnowing ==
    ASSUME NEW r \in Requests, RequestInv(r), req'[r] = req[r],
           \A o \in Orders : Evolves(o),
           req[r].pc = "log" => log'[req[r].order] = log[req[r].order]
    PROVE  RequestInv(r)'
  BY DEF RequestInv, Evolves, Ordinary, Exists, Approved

\* A step that leaves the tables alone has only its own request to account for.
LEMMA RequestStep ==
    ASSUME IInv, NEW r \in Requests, NEW q \in Request,
           req' = [req EXCEPT ![r] = q],
           UNCHANGED <<row, log>>,
           RequestInv(r)', q.pc # "log"
    PROVE  IInv'
<1>1. TypeOK'
  BY DEF IInv, TypeOK
<1>2. \A o \in Orders : OrderInv(o)' /\ LogInv(o)'
  BY IInvByParts DEF OrderInv, LogInv, RowInv, Exists, Approved, Ordinary
<1>3. \A s \in Requests : RequestInv(s)'
  <2>. SUFFICES ASSUME NEW s \in Requests, s # r PROVE RequestInv(s)'
    OBVIOUS
  <2>1. RequestInv(s) /\ req'[s] = req[s]
    BY DEF IInv, TypeOK
  <2>2. \A o \in Orders : Evolves(o)
    BY DEF Evolves, Exists, Approved
  <2>. QED BY <2>1, <2>2, BystanderKeepsKnowing
<1>4. OneLogger'
  BY DEF IInv, TypeOK, OneLogger
<1>. QED BY <1>1, <1>2, <1>3, <1>4, IInvPrimeByParts

\* A step that writes the row of one order and lets it evolve has the order's
\* own facts and its own request to account for.
LEMMA RowStep ==
    ASSUME IInv, NEW o \in Orders, NEW w \in Row,
           row' = [row EXCEPT ![o] = w], UNCHANGED log,
           req' \in [Requests -> Request],
           \A s \in Requests : RequestInv(s)' \/ req'[s] = req[s],
           Evolves(o), OrderInv(o)', OneLogger'
    PROVE  IInv'
<1>1. TypeOK'
  BY DEF IInv, TypeOK
<1>2. \A p \in Orders \ {o} : row'[p] = row[p]
  BY DEF IInv, TypeOK
<1>3. \A p \in Orders : Evolves(p)
  BY <1>2 DEF Evolves, Exists, Approved
<1>4. \A p \in Orders : OrderInv(p)'
  <2>. SUFFICES ASSUME NEW p \in Orders \ {o} PROVE OrderInv(p)'
    OBVIOUS
  <2>. QED BY <1>2, IInvByParts DEF OrderInv, RowInv, Exists, Approved, Ordinary
<1>5. \A p \in Orders : LogInv(p)'
  BY <1>3, IInvByParts DEF LogInv, Evolves, Approved
<1>6. \A s \in Requests : RequestInv(s)'
  <2>. SUFFICES ASSUME NEW s \in Requests, req'[s] = req[s] PROVE RequestInv(s)'
    OBVIOUS
  <2>. QED BY <1>3, BystanderKeepsKnowing DEF IInv
<1>. QED BY <1>1, <1>4, <1>5, <1>6, IInvPrimeByParts

------------------------------------------------------------------------------
LEMMA InitInv == Init => IInv
<1>. SUFFICES ASSUME Init PROVE IInv
  OBVIOUS
<1>1. NoRow \in Row /\ Free \in Request
  BY DEF NoRow, Row, Free, Nothing, Request, Ops, GovTargets, ExecTargets, Seen,
         Execs, Govs, Statuses
<1>2. TypeOK
  BY <1>1 DEF Init, TypeOK
<1>3. \A o \in Orders : OrderInv(o) /\ LogInv(o)
  BY DEF Init, OrderInv, LogInv, RowInv, Exists, Approved, Ordinary, NoRow
<1>4. (\A r \in Requests : RequestInv(r)) /\ OneLogger
  BY DEF Init, RequestInv, OneLogger, Free
<1>. QED BY <1>2, <1>3, <1>4, IInvByParts

LEMMA FinishStep ==
    ASSUME IInv, NEW r \in Requests, Finish(r), UNCHANGED <<row, log>>
    PROVE  IInv'
<1>1. Free \in Request
  BY DEF Free, Nothing, Request, Ops, GovTargets, ExecTargets, Seen, Execs, Govs
<1>2. RequestInv(r)'
  BY DEF Finish, RequestInv, Free, IInv, TypeOK
<1>. QED BY <1>1, <1>2, RequestStep DEF Finish, Free

------------------------------------------------------------------------------
(* One lemma per action of Next. *)

\* Every seen record and every request begun is well formed.
LEMMA RequestTypes ==
    /\ Nothing \in Seen
    /\ \A o \in Orders : row \in [Orders -> Row] => Glance(o) \in Seen
    /\ \A op \in Ops, o \in Orders, u \in Actors \cup {None}, pc \in {"gated", "read"} :
           [pc |-> pc, op |-> op, order |-> o, user |-> u, seen |-> Nothing] \in Request
  BY DEF Nothing, Seen, Execs, Govs, Row, Glance, Request

LEMMA CreatedRow ==
    ASSUME IInv, NEW o \in Orders, NEW u \in Actors, NEW type \in Types,
           NEW p \in Priorities, NEW a \in Assignees \cup {None},
           Insert(o, type, u, p, a)
    PROVE  LET w == [NoRow EXCEPT !.type = type, !.status = "submitted", !.priority = p,
                                  !.requestor = u, !.assignee = a] IN
           /\ w \in Row
           /\ row' = [row EXCEPT ![o] = w]
           /\ Evolves(o)
           /\ OrderInv(o)'
           /\ \A r \in Requests : req[r].pc # "idle" => req[r].order # o
<1>. DEFINE w == [NoRow EXCEPT !.type = type, !.status = "submitted", !.priority = p,
                               !.requestor = u, !.assignee = a]
<1>1. w \in Row /\ row' = [row EXCEPT ![o] = w]
  BY DEF Insert, NoRow, Row, Types, Statuses, Execs, Govs
<1>2. row[o] = NoRow
  BY IInvByParts DEF Insert, OrderInv, RowInv, Exists
<1>3. row'[o] = w
  BY <1>1 DEF IInv, TypeOK
<1>4. Evolves(o)
  BY <1>2, <1>3 DEF Evolves, NoRow, Exists, Approved
<1>5. OrderInv(o)'
  BY <1>3 DEF OrderInv, RowInv, NoRow, Exists, Approved, Ordinary, DeriveStatus
<1>6. \A r \in Requests : req[r].pc # "idle" => req[r].order # o
  BY DEF IInv, RequestInv, Exists, Insert
<1>. QED BY <1>1, <1>4, <1>5, <1>6

LEMMA CreateInv ==
    ASSUME IInv, NEW o \in Orders, NEW u \in Actors, NEW type \in Types,
           NEW p \in Priorities, NEW a \in Assignees \cup {None},
           Create(o, u, type, p, a)
    PROVE  IInv'
<1>1. Insert(o, type, u, p, a) /\ UNCHANGED <<log, req>>
  BY DEF Create, Insert
<1>2. OneLogger' /\ req' \in [Requests -> Request]
  BY <1>1 DEF OneLogger, IInv, TypeOK
<1>. QED BY <1>1, <1>2, CreatedRow, RowStep

LEMMA CreateEmergencyInv ==
    ASSUME IInv, NEW r \in Requests, NEW o \in Orders, CreateEmergency(r, o)
    PROVE  IInv'
<1>. DEFINE q == [pc |-> "gated", op |-> "emergency", order |-> o, user |-> System,
                  seen |-> Nothing]
<1>1. /\ Insert(o, "emergency", System, "critical", None)
      /\ UNCHANGED log
      /\ req' = [req EXCEPT ![r] = q]
  BY DEF CreateEmergency, Insert, Begin
<1>2. System \in Actors /\ "emergency" \in Types /\ "critical" \in Priorities
  BY PeopleAssumption DEF Actors, Types
<1>3. req' \in [Requests -> Request] /\ req'[r] = q
  BY <1>1, <1>2, RequestTypes DEF IInv, TypeOK, Ops
<1>4. OneLogger'
  BY <1>1, <1>3 DEF OneLogger, IInv, TypeOK
<1>5. \A s \in Requests : s # r => req'[s] = req[s]
  BY <1>1 DEF IInv, TypeOK
<1>6. row'[o].status = "submitted" /\ row'[o].requestor = System
  BY <1>1 DEF Insert, NoRow, IInv, TypeOK
<1>7. RequestInv(r)'
  BY <1>3, <1>6 DEF RequestInv, Exists, GovTargets, Ordinary
<1>8. PICK w \in Row : row' = [row EXCEPT ![o] = w] /\ Evolves(o) /\ OrderInv(o)'
  BY <1>1, <1>2, CreatedRow
<1>. QED BY <1>1, <1>3, <1>4, <1>5, <1>7, <1>8, RowStep

LEMMA GateInv ==
    ASSUME IInv, NEW r \in Requests, NEW o \in Orders, NEW u \in Users,
           NEW target \in Statuses, Gate(r, o, u, target)
    PROVE  IInv'
<1>. DEFINE q == [pc |-> "gated", op |-> target, order |-> o, user |-> u, seen |-> Nothing]
<1>1. /\ UNCHANGED <<row, log>>
      /\ req' = [req EXCEPT ![r] = q]
      /\ target \in Ops
      /\ Exists(o)
  BY DEF Gate, Begin, Live, Exists, Ops
<1>2. q \in Request
  BY <1>1, RequestTypes DEF Actors
<1>3. req'[r] = q
  BY <1>1 DEF IInv, TypeOK
<1>4. target = "in_progress" => Approved(o)
  BY IInvByParts DEF Gate, validTransitions, OrderInv, RowInv
<1>5. target = "verified" /\ Ordinary(o) => row[o].exec = "done"
  <2>. SUFFICES ASSUME target = "verified", Ordinary(o) PROVE row[o].exec = "done"
    OBVIOUS
  <2>1. row[o].status = "completed" /\ row[o].exec \in Execs /\ row[o].gov \in Govs
    BY DEF Gate, validTransitions, IInv, TypeOK, Row
  <2>2. row[o].status = DeriveStatus(row[o].exec, row[o].gov)
    BY <1>1, IInvByParts DEF OrderInv
  <2>. QED BY <2>1, <2>2 DEF DeriveStatus, Execs, Govs
<1>6. RequestInv(r)'
  BY <1>1, <1>3, <1>4, <1>5 DEF RequestInv, Exists, Approved, Ordinary, Gate,
     GovTargets, ExecTargets
<1>. QED BY <1>1, <1>2, <1>6, RequestStep

LEMMA GateEditInv ==
    ASSUME IInv, NEW r \in Requests, NEW o \in Orders, NEW u \in Users,
           NEW op \in {"update", "delete"}, GateEdit(r, o, u, op)
    PROVE  IInv'
<1>. DEFINE q == [pc |-> "read", op |-> op, order |-> o, user |-> u, seen |-> Nothing]
<1>1. /\ UNCHANGED <<row, log>>
      /\ req' = [req EXCEPT ![r] = q]
      /\ Exists(o)
  BY DEF GateEdit, Begin, Live, Exists
<1>2. q \in Request
  BY RequestTypes DEF Actors, Ops
<1>3. RequestInv(r)'
  BY <1>1 DEF IInv, TypeOK, RequestInv, Exists, GovTargets, ExecTargets
<1>. QED BY <1>1, <1>2, <1>3, RequestStep

LEMMA GateAssignInv ==
    ASSUME IInv, NEW r \in Requests, NEW o \in Orders, NEW u \in Users, GateAssign(r, o, u)
    PROVE  IInv'
<1>. DEFINE q == [pc |-> "read", op |-> "assign", order |-> o, user |-> u, seen |-> Nothing]
<1>1. /\ UNCHANGED <<row, log>>
      /\ req' = [req EXCEPT ![r] = q]
      /\ Exists(o)
  BY DEF GateAssign, Begin, Assignable, Live, Exists
<1>2. q \in Request
  BY RequestTypes DEF Actors, Ops
<1>3. RequestInv(r)'
  BY <1>1 DEF IInv, TypeOK, RequestInv, Exists, GovTargets, ExecTargets
<1>. QED BY <1>1, <1>2, <1>3, RequestStep

LEMMA SelectRelocationInv ==
    ASSUME IInv, NEW r \in Requests, NEW o \in Orders, SelectRelocation(r, o)
    PROVE  IInv'
<1>. DEFINE q == [pc |-> "read", op |-> "autoclose", order |-> o, user |-> None,
                  seen |-> Nothing]
<1>1. /\ UNCHANGED <<row, log>>
      /\ req' = [req EXCEPT ![r] = q]
      /\ Exists(o)
      /\ row[o].type = "relocation"
  BY DEF SelectRelocation, Begin, Live, Exists
<1>2. q \in Request
  BY RequestTypes DEF Ops
<1>3. RequestInv(r)'
  BY <1>1 DEF IInv, TypeOK, RequestInv, Exists, GovTargets, ExecTargets
<1>. QED BY <1>1, <1>2, <1>3, RequestStep

LEMMA ReadGovernanceInv ==
    ASSUME IInv, NEW r \in Requests, ReadGovernance(r)
    PROVE  IInv'
<1>. DEFINE o == req[r].order
            q == [req[r] EXCEPT !.pc = "read", !.seen = Glance(o)]
<1>1. RequestInv(r) /\ req[r] \in Request /\ req[r].pc = "gated"
  BY DEF IInv, TypeOK, ReadGovernance
<1>2. o \in Orders /\ row[o] \in Row
  BY <1>1 DEF RequestInv, IInv, TypeOK
<1>3. /\ UNCHANGED <<row, log>>
      /\ req' = [req EXCEPT ![r] = q]
      /\ q \in Request
  BY <1>1, <1>2, RequestTypes DEF ReadGovernance, Read, IInv, TypeOK, Request
<1>4. req'[r] = q
  BY <1>3 DEF IInv, TypeOK
<1>5. q.op = "approved" \/ q.op = "rejected" => q.user \in Approvers \ {row[o].requestor}
  BY <1>1 DEF ReadGovernance, validateApproval, Request
<1>6. /\ q.op = "rejected" => q.seen.gov = "submitted"
      /\ q.op = "verified" => q.seen.gov = "approved"
  BY <1>1, <1>2 DEF ReadGovernance, validGovTransitions, Glance, Request
<1>7. q.seen.priority \in Priorities
  BY <1>1, <1>2, IInvByParts DEF OrderInv, RowInv, RequestInv, Glance, Request
<1>8. q.op \in GovTargets /\ q.pc = "read" /\ q.op = req[r].op /\ q.order = o /\ q.user = req[r].user
  BY <1>1 DEF ReadGovernance, Request
<1>9. RequestInv(r)'
  BY <1>1, <1>3, <1>4, <1>5, <1>6, <1>7, <1>8
     DEF RequestInv, Exists, Ordinary, Approved, GovTargets, ExecTargets
<1>. QED BY <1>3, <1>8, <1>9, RequestStep

LEMMA ReadExecutionInv ==
    ASSUME IInv, NEW r \in Requests, ReadExecution(r)
    PROVE  IInv'
<1>. DEFINE o == req[r].order
            q == [req[r] EXCEPT !.pc = "read", !.seen = Glance(o)]
<1>1. RequestInv(r) /\ req[r] \in Request /\ req[r].pc = "gated"
  BY DEF IInv, TypeOK, ReadExecution
<1>2. o \in Orders /\ row[o] \in Row /\ OrderInv(o)
  BY <1>1, IInvByParts DEF RequestInv, TypeOK
<1>3. /\ UNCHANGED <<row, log>>
      /\ req' = [req EXCEPT ![r] = q]
      /\ q \in Request
  BY <1>1, <1>2, RequestTypes DEF ReadExecution, Read, IInv, TypeOK, Request
<1>4. req'[r] = q
  BY <1>3 DEF IInv, TypeOK
<1>5. q.op \in ExecTargets /\ q.pc = "read" /\ q.op = req[r].op /\ q.order = o /\ q.user = req[r].user
  BY <1>1 DEF ReadExecution, Request
<1>6. <<q.seen.exec, ExecOf(q.op)>> \in validExecTransitions
  BY <1>1, <1>2, <1>5 DEF ReadExecution, Glance, Request
\* Work has been allowed to start, or has started: the order is approved.
<1>7. q.seen.gov \in {"approved", "verified"} /\ (Ordinary(o) => q.seen.gov = "approved")
  <2>1. row[o].exec # "done"
    BY <1>6, <1>1 DEF validExecTransitions, ExecOf, Glance, Request
  <2>2. Approved(o)
    BY <1>1, <1>2, <1>5, <1>6 DEF RequestInv, OrderInv, validExecTransitions, ExecOf,
       ExecTargets, Glance, Request
  <2>. QED BY <1>1, <1>2, <2>1, <2>2 DEF OrderInv, Approved, Glance, Request
<1>8. RequestInv(r)'
  BY <1>1, <1>3, <1>4, <1>5, <1>6, <1>7
     DEF RequestInv, Exists, Ordinary, Approved, GovTargets, ExecTargets
<1>. QED BY <1>3, <1>5, <1>8, RequestStep

\* A request that has written what it came to write, and is done or has a
\* decision left to log.
LEMMA WriteStep ==
    ASSUME IInv, NEW r \in Requests, NEW o \in Orders, NEW w \in Row,
           req[r].pc # "idle", req[r].order = o,
           row' = [row EXCEPT ![o] = w], UNCHANGED log,
           Evolves(o), OrderInv(o)',
           \/ Finish(r)
           \/ /\ Goto(r, "log")
              /\ row[o].gov = "submitted"
              /\ row'[o].gov # "submitted"
              /\ req[r].op \in {"approved", "rejected", "emergency"}
              /\ req[r].op # "rejected" => Approved(o)' /\ row'[o].approver = req[r].user
    PROVE  IInv'
<1>1. RequestInv(r) /\ req[r] \in Request
  BY DEF IInv, TypeOK
<1>2. \A s \in Requests : s # r => req'[s] = req[s]
  BY DEF Finish, Goto, IInv, TypeOK
<1>3. Free \in Request /\ [req[r] EXCEPT !.pc = "log"] \in Request
  BY <1>1 DEF Free, Nothing, Request, Ops, GovTargets, ExecTargets, Seen, Execs, Govs
<1>4. /\ req' \in [Requests -> Request]
      /\ req'[r] = Free \/ req'[r] = [req[r] EXCEPT !.pc = "log"]
  BY <1>3 DEF Finish, Goto, IInv, TypeOK
<1>5. CASE Finish(r)
  <2>1. req'[r].pc = "idle"
    BY <1>5 DEF Finish, Free, IInv, TypeOK
  <2>2. RequestInv(r)'
    BY <2>1 DEF RequestInv
  <2>3. OneLogger'
    BY <1>2, <2>1 DEF OneLogger, IInv
  <2>4. \A s \in Requests : RequestInv(s)' \/ req'[s] = req[s]
    BY <1>2, <2>2
  <2>. QED BY <1>1, <1>4, <2>3, <2>4, RowStep
<1>6. CASE /\ Goto(r, "log")
           /\ row[o].gov = "submitted"
           /\ row'[o].gov # "submitted"
           /\ req[r].op \in {"approved", "rejected", "emergency"}
           /\ req[r].op # "rejected" => Approved(o)' /\ row'[o].approver = req[r].user
  <2>1. req'[r] = [req[r] EXCEPT !.pc = "log"]
    BY <1>6 DEF Goto, IInv, TypeOK
  <2>2. log'[o] = <<>>
    BY <1>1, <1>6, IInvByParts DEF LogInv
  <2>3. RequestInv(r)'
    BY <1>1, <1>6, <2>1, <2>2 DEF RequestInv, Evolves, Exists, Approved, Ordinary,
       GovTargets, Request
  <2>4. \A s \in Requests : req[s].pc = "log" => req[s].order # o
    BY <1>6 DEF IInv, RequestInv
  <2>5. OneLogger'
    BY <1>1, <1>2, <2>1, <2>4 DEF OneLogger, IInv, Request
  <2>6. \A s \in Requests : RequestInv(s)' \/ req'[s] = req[s]
    BY <1>2, <2>3
  <2>. QED BY <1>1, <1>4, <2>5, <2>6, RowStep
<1>. QED BY <1>5, <1>6

LEMMA StampWorkOrderApprovalInv ==
    ASSUME IInv, NEW r \in Requests, StampWorkOrderApproval(r)
    PROVE  IInv'
<1>1. PICK o \in Orders : req[r].order = o
  BY DEF StampWorkOrderApproval, IInv, RequestInv
<1>2. RequestInv(r) /\ req[r] \in Request /\ req[r].pc # "idle"
  BY DEF StampWorkOrderApproval, IInv, TypeOK
<1>3. row[o] \in Row /\ OrderInv(o) /\ Exists(o)
  BY <1>1, <1>2, IInvByParts DEF TypeOK, RequestInv
<1>. DEFINE w == [row[o] EXCEPT !.gov = "approved", !.status = "approved",
                               !.approver = req[r].user, !.sla = req[r].seen.priority]
<1>4. /\ row' = [row EXCEPT ![o] = w] /\ UNCHANGED log /\ Goto(r, "log")
      /\ row[o].gov = "submitted" /\ req[r].op = "approved"
      /\ req[r].user \in Approvers \ {row[o].requestor}
      /\ req[r].seen.priority \in Priorities
  BY <1>1, <1>2 DEF StampWorkOrderApproval, RequestInv, IInv, TypeOK
<1>5. w \in Row /\ row'[o] = w
  BY <1>3, <1>4, PeopleAssumption DEF Row, Statuses, Govs, Actors, IInv, TypeOK
<1>6. Evolves(o)
  BY <1>3, <1>4, <1>5 DEF Evolves, Exists, Approved, Row
<1>7. row[o].exec = "pending"
  BY <1>3, <1>4 DEF OrderInv, Approved
<1>8. OrderInv(o)'
  BY <1>3, <1>4, <1>5, <1>7, PeopleAssumption
     DEF OrderInv, RowInv, Exists, Approved, Ordinary, DeriveStatus, Row
<1>9. Approved(o)' /\ row'[o].approver = req[r].user /\ row'[o].gov # "submitted"
  BY <1>3, <1>5 DEF Approved, Row
<1>. QED BY <1>1, <1>2, <1>4, <1>5, <1>6, <1>8, <1>9, WriteStep

LEMMA UpdateGovernanceStatusInv ==
    ASSUME IInv, NEW r \in Requests, UpdateGovernanceStatus(r)
    PROVE  IInv'
<1>1. PICK o \in Orders : req[r].order = o
  BY DEF UpdateGovernanceStatus, IInv, RequestInv
<1>2. RequestInv(r) /\ req[r] \in Request /\ req[r].pc # "idle"
  BY DEF UpdateGovernanceStatus, IInv, TypeOK
<1>3. row[o] \in Row /\ OrderInv(o) /\ Exists(o)
  BY <1>1, <1>2, IInvByParts DEF TypeOK, RequestInv
<1>. DEFINE w == [row[o] EXCEPT !.gov = req[r].op, !.status = req[r].op]
<1>4. /\ row' = [row EXCEPT ![o] = w] /\ UNCHANGED log
      /\ req[r].op \in {"rejected", "verified"}
      /\ row[o].gov = req[r].seen.gov
      /\ req[r].op = "rejected" => row[o].gov = "submitted"
      /\ req[r].op = "verified" => /\ row[o].gov = "approved"
                                   /\ Ordinary(o) => row[o].exec = "done"
  BY <1>1, <1>2 DEF UpdateGovernanceStatus, RequestInv, DeriveStatus, IInv, TypeOK
<1>5. w \in Row /\ row'[o] = w
  BY <1>3, <1>4 DEF Row, Statuses, Govs, IInv, TypeOK
<1>6. Evolves(o)
  BY <1>3, <1>4, <1>5 DEF Evolves, Exists, Approved, Row
<1>7. OrderInv(o)'
  BY <1>3, <1>4, <1>5
     DEF OrderInv, RowInv, Exists, Approved, Ordinary, DeriveStatus, Row
<1>8. row'[o].gov = req[r].op
  BY <1>3, <1>5 DEF Row
<1>9. IF req[r].op = "rejected" THEN Goto(r, "log") ELSE Finish(r)
  BY DEF UpdateGovernanceStatus
<1>. QED BY <1>1, <1>2, <1>4, <1>5, <1>6, <1>7, <1>8, <1>9, WriteStep

LEMMA UpdateExecutionStatusInv ==
    ASSUME IInv, NEW r \in Requests, UpdateExecutionStatus(r)
    PROVE  IInv'
<1>1. PICK o \in Orders : req[r].order = o
  BY DEF UpdateExecutionStatus, IInv, RequestInv
<1>2. RequestInv(r) /\ req[r] \in Request /\ req[r].pc # "idle"
  BY DEF UpdateExecutionStatus, IInv, TypeOK
<1>3. row[o] \in Row /\ OrderInv(o) /\ Exists(o)
  BY <1>1, <1>2, IInvByParts DEF TypeOK, RequestInv
<1>4. PICK e \in Execs, st \in Statuses :
          /\ row' = [row EXCEPT ![o].exec = e, ![o].status = st]
          /\ e = ExecOf(req[r].op)
          /\ st = DeriveStatus(e, req[r].seen.gov)
  <2>1. req[r].seen.gov \in {"approved", "verified"} /\ req[r].op \in ExecTargets
    BY <1>2 DEF UpdateExecutionStatus, RequestInv
  <2>2. ExecOf(req[r].op) \in Execs /\ DeriveStatus(ExecOf(req[r].op), req[r].seen.gov) \in Statuses
    BY <2>1 DEF ExecOf, ExecTargets, Execs, DeriveStatus, Statuses
  <2>. QED BY <1>1, <2>2 DEF UpdateExecutionStatus
<1>. DEFINE w == [row[o] EXCEPT !.exec = e, !.status = st]
<1>5. /\ row' = [row EXCEPT ![o] = w] /\ UNCHANGED log /\ Finish(r)
      /\ row[o].exec = req[r].seen.exec
      /\ req[r].op \in ExecTargets
      /\ <<row[o].exec, e>> \in validExecTransitions
      /\ req[r].seen.gov \in {"approved", "verified"}
      /\ Ordinary(o) => req[r].seen.gov = "approved"
  BY <1>1, <1>2, <1>4 DEF UpdateExecutionStatus, RequestInv, IInv, TypeOK
\* In both cases the order is approved now and not yet verified.
<1>6. Approved(o) /\ (Ordinary(o) => row[o].gov = "approved")
  BY <1>1, <1>2, <1>3, <1>4, <1>5 DEF RequestInv, OrderInv, Approved, validExecTransitions,
     ExecOf, ExecTargets
<1>7. /\ e \in {"working", "done"}
      /\ row[o].exec # "done"
      /\ st \in {"in_progress", "completed", "verified"}
  BY <1>4, <1>5 DEF ExecOf, ExecTargets, DeriveStatus, validExecTransitions
<1>8. w \in Row /\ row'[o] = w
  BY <1>3, <1>5 DEF Row, IInv, TypeOK
<1>9. Evolves(o)
  BY <1>3, <1>6, <1>7, <1>8 DEF Evolves, Exists, Approved, Row
<1>10. OrderInv(o)'
  <2>1. Ordinary(o) => st = DeriveStatus(e, row[o].gov)
    BY <1>4, <1>5, <1>6
  <2>2. /\ row'[o].exec = e /\ row'[o].status = st
        /\ row'[o].gov = row[o].gov /\ row'[o].type = row[o].type
        /\ row'[o].sla = row[o].sla /\ row'[o].approver = row[o].approver
        /\ row'[o].requestor = row[o].requestor /\ row'[o].priority = row[o].priority
    BY <1>3, <1>8 DEF Row
  <2>3. Approved(o)' /\ Exists(o)' /\ row'[o].status # "approved"
    BY <1>6, <1>7, <2>2 DEF Approved, Exists
  <2>4. RowInv(o)'
    BY <1>3, <2>2, <2>3 DEF OrderInv, RowInv, Exists
  <2>. QED BY <1>3, <1>6, <2>1, <2>2, <2>3, <2>4 DEF OrderInv, Approved, Ordinary
<1>. QED BY <1>1, <1>2, <1>5, <1>8, <1>9, <1>10, WriteStep

LEMMA TransitionEmergencyInv ==
    ASSUME IInv, NEW r \in Requests, TransitionEmergency(r)
    PROVE  IInv'
<1>1. PICK o \in Orders : req[r].order = o
  BY DEF TransitionEmergency, IInv, RequestInv
<1>2. RequestInv(r) /\ req[r] \in Request /\ req[r].pc # "idle"
  BY DEF TransitionEmergency, IInv, TypeOK
<1>3. row[o] \in Row /\ OrderInv(o) /\ Exists(o)
  BY <1>1, <1>2, IInvByParts DEF TypeOK, RequestInv
<1>. DEFINE w == [row[o] EXCEPT !.gov = "approved", !.exec = "working",
                               !.status = "in_progress", !.approver = req[r].user,
                               !.sla = "critical"]
<1>4. /\ row' = [row EXCEPT ![o] = w] /\ UNCHANGED log /\ Goto(r, "log")
      /\ row[o].gov = "submitted" /\ row[o].type = "emergency"
      /\ req[r].op = "emergency"
      /\ req[r].user = System /\ row[o].requestor = System
  BY <1>1, <1>2 DEF TransitionEmergency, RequestInv, IInv, TypeOK
<1>5. w \in Row /\ row'[o] = w
  BY <1>3, <1>4, PeopleAssumption DEF Row, Statuses, Execs, Govs, Actors, IInv, TypeOK
<1>6. Evolves(o)
  BY <1>3, <1>4, <1>5 DEF Evolves, Exists, Approved, OrderInv, Row
<1>7. OrderInv(o)'
  BY <1>3, <1>4, <1>5, PeopleAssumption
     DEF OrderInv, RowInv, Exists, Approved, Ordinary, DeriveStatus, Row
<1>8. Approved(o)' /\ row'[o].approver = req[r].user /\ row'[o].gov # "submitted"
  BY <1>3, <1>5 DEF Approved, Row
<1>. QED BY <1>1, <1>2, <1>4, <1>5, <1>6, <1>7, <1>8, WriteStep

LEMMA UpdateInv ==
    ASSUME IInv, NEW r \in Requests, Update(r)
    PROVE  IInv'
<1>1. PICK o \in Orders : req[r].order = o
  BY DEF Update, IInv, RequestInv
<1>2. RequestInv(r) /\ req[r] \in Request /\ req[r].pc # "idle"
  BY DEF Update, IInv, TypeOK
<1>3. row[o] \in Row /\ OrderInv(o) /\ Exists(o)
  BY <1>1, <1>2, IInvByParts DEF TypeOK, RequestInv
<1>4. PICK p \in Priorities, a \in Assignees \cup {row[o].assignee} :
          row' = [row EXCEPT ![o].priority = p, ![o].assignee = a]
  BY <1>1 DEF Update
<1>. DEFINE w == [row[o] EXCEPT !.priority = p, !.assignee = a]
<1>5. row' = [row EXCEPT ![o] = w] /\ UNCHANGED log /\ Finish(r)
  BY <1>4 DEF Update, IInv, TypeOK
<1>6. w \in Row /\ row'[o] = w
  BY <1>3, <1>5 DEF Row, IInv, TypeOK
<1>7. Evolves(o)
  BY <1>3, <1>6 DEF Evolves, Exists, Approved, Row
<1>8. OrderInv(o)'
  BY <1>3, <1>5, <1>6 DEF OrderInv, RowInv, Exists, Approved, Ordinary, Row
<1>. QED BY <1>1, <1>2, <1>5, <1>6, <1>7, <1>8, WriteStep

LEMMA DeleteInv ==
    ASSUME IInv, NEW r \in Requests, Delete(r)
    PROVE  IInv'
<1>1. PICK o \in Orders : req[r].order = o
  BY DEF Delete, IInv, RequestInv
<1>2. RequestInv(r) /\ req[r] \in Request /\ req[r].pc # "idle"
  BY DEF Delete, IInv, TypeOK
<1>3. row[o] \in Row /\ OrderInv(o) /\ Exists(o)
  BY <1>1, <1>2, IInvByParts DEF TypeOK, RequestInv
<1>. DEFINE w == [row[o] EXCEPT !.deleted = TRUE]
<1>4. row' = [row EXCEPT ![o] = w] /\ UNCHANGED log /\ Finish(r)
  BY <1>1 DEF Delete, IInv, TypeOK
<1>5. w \in Row /\ row'[o] = w
  BY <1>3, <1>4 DEF Row, IInv, TypeOK
<1>6. Evolves(o)
  BY <1>3, <1>5 DEF Evolves, Exists, Approved, Row
<1>7. OrderInv(o)'
  BY <1>3, <1>4, <1>5 DEF OrderInv, RowInv, Exists, Approved, Ordinary, Row
<1>. QED BY <1>1, <1>2, <1>4, <1>5, <1>6, <1>7, WriteStep

LEMMA AssignWorkOrderInv ==
    ASSUME IInv, NEW r \in Requests, AssignWorkOrder(r)
    PROVE  IInv'
<1>1. PICK o \in Orders : req[r].order = o
  BY DEF AssignWorkOrder, IInv, RequestInv
<1>2. RequestInv(r) /\ req[r] \in Request /\ req[r].pc # "idle"
  BY DEF AssignWorkOrder, IInv, TypeOK
<1>3. row[o] \in Row /\ OrderInv(o) /\ Exists(o)
  BY <1>1, <1>2, IInvByParts DEF TypeOK, RequestInv
<1>4. PICK a \in Assignees : row' = [row EXCEPT ![o].assignee = a]
  BY <1>1 DEF AssignWorkOrder
<1>. DEFINE w == [row[o] EXCEPT !.assignee = a]
<1>5. row' = [row EXCEPT ![o] = w] /\ UNCHANGED log /\ Finish(r)
  BY <1>4 DEF AssignWorkOrder, IInv, TypeOK
<1>6. w \in Row /\ row'[o] = w
  BY <1>3, <1>5 DEF Row, IInv, TypeOK
<1>7. Evolves(o)
  BY <1>3, <1>6 DEF Evolves, Exists, Approved, Row
<1>8. OrderInv(o)'
  BY <1>3, <1>5, <1>6 DEF OrderInv, RowInv, Exists, Approved, Ordinary, Row
<1>. QED BY <1>1, <1>2, <1>5, <1>6, <1>7, <1>8, WriteStep

LEMMA AutoCloseRelocationInv ==
    ASSUME IInv, NEW r \in Requests, AutoCloseRelocation(r)
    PROVE  IInv'
<1>1. PICK o \in Orders : req[r].order = o
  BY DEF AutoCloseRelocation, IInv, RequestInv
<1>2. RequestInv(r) /\ req[r] \in Request /\ req[r].pc # "idle"
  BY DEF AutoCloseRelocation, IInv, TypeOK
<1>3. row[o] \in Row /\ OrderInv(o) /\ Exists(o)
  BY <1>1, <1>2, IInvByParts DEF TypeOK, RequestInv
<1>. DEFINE w == [row[o] EXCEPT !.status = "completed"]
<1>4. row' = [row EXCEPT ![o] = w] /\ UNCHANGED log /\ Finish(r) /\ row[o].type = "relocation"
  BY <1>1, <1>2 DEF AutoCloseRelocation, RequestInv, IInv, TypeOK
<1>5. w \in Row /\ row'[o] = w
  BY <1>3, <1>4 DEF Row, Statuses, IInv, TypeOK
<1>6. Evolves(o)
  BY <1>3, <1>5 DEF Evolves, Exists, Approved, Row
<1>7. OrderInv(o)'
  BY <1>3, <1>4, <1>5 DEF OrderInv, RowInv, Exists, Approved, Ordinary, Row
<1>. QED BY <1>1, <1>2, <1>4, <1>5, <1>6, <1>7, WriteStep

\* The one step that writes the log: a decision nobody else can have logged.
LEMMA LogTransitionInv ==
    ASSUME IInv, NEW r \in Requests, LogTransition(r)
    PROVE  IInv'
<1>1. PICK o \in Orders : req[r].order = o
  BY DEF LogTransition, IInv, RequestInv
<1>2. RequestInv(r) /\ req[r] \in Request /\ req[r].pc = "log"
  BY DEF LogTransition, IInv, TypeOK
<1>. DEFINE entry == [to |-> IF req[r].op = "emergency" THEN "in_progress" ELSE req[r].op,
                      by |-> req[r].user]
<1>3. /\ log' = [log EXCEPT ![o] = Append(log[o], entry)]
      /\ UNCHANGED row
      /\ Finish(r)
  BY <1>1 DEF LogTransition
<1>4. /\ req[r].op \in {"approved", "rejected", "emergency"}
      /\ row[o].gov # "submitted"
      /\ log[o] = <<>>
      /\ req[r].op # "rejected" => Approved(o) /\ req[r].user = row[o].approver
      /\ req[r].user \in Actors
  BY <1>1, <1>2 DEF RequestInv, GovTargets, Actors
<1>5. entry \in LogEntry
  BY <1>4 DEF LogEntry, Decisions
<1>6. log' = [log EXCEPT ![o] = <<entry>>]
  BY <1>3, <1>4, <1>5
<1>7. Free \in Request
  BY DEF Free, Nothing, Request, Ops, GovTargets, ExecTargets, Seen, Execs, Govs
<1>8. TypeOK'
  BY <1>3, <1>5, <1>6, <1>7 DEF IInv, TypeOK, Finish
<1>9. \A p \in Orders : OrderInv(p)'
  BY <1>3, IInvByParts DEF OrderInv, RowInv, Exists, Approved, Ordinary
<1>10. \A p \in Orders : LogInv(p)'
  <2>. SUFFICES ASSUME NEW p \in Orders PROVE LogInv(p)'
    OBVIOUS
  <2>1. CASE p = o
    <3>1. log'[o] = <<entry>>
      BY <1>6 DEF IInv, TypeOK
    <3>2. entry.to # "rejected" => Approved(o)' /\ entry.by = row'[o].approver
      BY <1>3, <1>4 DEF Approved
    <3>. QED BY <2>1, <3>1, <3>2, <1>3, <1>4, <1>5 DEF LogInv
  <2>2. CASE p # o
    BY <2>2, <1>3, <1>6, IInvByParts DEF LogInv, Approved, TypeOK
  <2>. QED BY <2>1, <2>2
<1>11. \A s \in Requests : RequestInv(s)'
  <2>. SUFFICES ASSUME NEW s \in Requests PROVE RequestInv(s)'
    OBVIOUS
  <2>1. CASE s = r
    BY <2>1, <1>3 DEF RequestInv, Finish, Free, IInv, TypeOK
  <2>2. CASE s # r
    <3>1. req'[s] = req[s] /\ RequestInv(s)
      BY <2>2, <1>3 DEF Finish, IInv, TypeOK
    <3>2. req[s].pc = "log" => req[s].order # o
      BY <2>2, <1>1, <1>2 DEF IInv, OneLogger
    <3>3. req[s].pc = "log" => log'[req[s].order] = log[req[s].order]
      BY <3>1, <3>2, <1>6 DEF RequestInv, IInv, TypeOK
    <3>4. \A p \in Orders : Evolves(p)
      BY <1>3 DEF Evolves, Exists, Approved
    <3>. QED BY <3>1, <3>3, <3>4, BystanderKeepsKnowing
  <2>. QED BY <2>1, <2>2
<1>12. OneLogger'
  BY <1>3 DEF Finish, Free, OneLogger, IInv, TypeOK
<1>. QED BY <1>8, <1>9, <1>10, <1>11, <1>12, IInvPrimeByParts

LEMMA AbandonInv ==
    ASSUME IInv, NEW r \in Requests, Abandon(r)
    PROVE  IInv'
  BY FinishStep DEF Abandon

------------------------------------------------------------------------------
LEMMA NextInv == IInv /\ [Next]_vars => IInv'
<1>. SUFFICES ASSUME IInv, [Next]_vars PROVE IInv'
  OBVIOUS
<1>1. ASSUME NEW o \in Orders, NEW u \in Actors, NEW type \in Types, NEW p \in Priorities,
             NEW a \in Assignees \cup {None}, Create(o, u, type, p, a)
      PROVE  IInv'
  BY <1>1, CreateInv
<1>2. ASSUME NEW r \in Requests, Proceed(r) PROVE IInv'
  BY <1>2, ReadGovernanceInv, ReadExecutionInv, StampWorkOrderApprovalInv,
     UpdateGovernanceStatusInv, UpdateExecutionStatusInv, TransitionEmergencyInv,
     UpdateInv, DeleteInv, AssignWorkOrderInv, AutoCloseRelocationInv,
     LogTransitionInv, AbandonInv DEF Proceed
<1>3. ASSUME NEW r \in Requests, NEW o \in Orders, Arrive(r, o) PROVE IInv'
  BY <1>3, CreateEmergencyInv, SelectRelocationInv, GateInv, GateEditInv, GateAssignInv
     DEF Arrive
<1>4. ASSUME UNCHANGED vars PROVE IInv'
  <2>1. TypeOK' /\ (\A o \in Orders : OrderInv(o)' /\ LogInv(o)')
    BY <1>4, IInvByParts DEF vars, TypeOK, OrderInv, LogInv, RowInv, Exists, Approved, Ordinary
  <2>2. (\A r \in Requests : RequestInv(r)') /\ OneLogger'
    BY <1>4, IInvByParts DEF vars, RequestInv, OneLogger, Exists, Approved, Ordinary
  <2>. QED BY <2>1, <2>2, IInvPrimeByParts
<1>. QED BY <1>1, <1>2, <1>3, <1>4 DEF Next

\* The invariant that carries every safety property of the module.
THEOREM Inductive == Spec => []IInv
<1>1. Init => IInv
  BY InitInv
<1>2. IInv /\ [Next]_vars => IInv'
  BY NextInv
<1>. QED BY <1>1, <1>2, PTL DEF Spec

\* Every reachable state is well typed.
THEOREM TypeCorrect == Spec => []TypeOK
<1>1. IInv => TypeOK
  BY DEF IInv
<1>. QED BY <1>1, Inductive, PTL

\* Status agrees with the two columns it is derived from, for every order
\* that only the maintenance service writes.
THEOREM StatusIsDerived == Spec => []DerivedStatus
<1>1. IInv => DerivedStatus
  BY DEF IInv
<1>. QED BY <1>1, Inductive, PTL

\* No order is executed that was not approved: neither the UPDATE of
\* execution_status nor a handler starts one behind the approval.
THEOREM ApprovalFirst == Spec => []NoWorkWithoutApproval
<1>1. IInv => NoWorkWithoutApproval
  BY DEF IInv
<1>. QED BY <1>1, Inductive, PTL

\* A verification, guarded on governance_status alone, never lands on an order
\* whose work is not done.
THEOREM DoneFirst == Spec => []VerifiedWorkWasDone
<1>1. IInv => VerifiedWorkWasDone
  BY DEF IInv
<1>. QED BY <1>1, Inductive, PTL

\* Every approved order has an approver on record, and none approved an own
\* order (validateApproval).
THEOREM OthersApprove == Spec => []SegregationOfDuties
<1>1. IInv => SegregationOfDuties
  BY DEF IInv
<1>. QED BY <1>1, Inductive, PTL

\* Of all concurrent decisions on an order one is taken and logged, an
\* approval under the name of its approver.
THEOREM OneDecision == Spec => []DecidedOnce
<1>1. IInv => DecidedOnce
  <2>. SUFFICES ASSUME IInv, NEW o \in Orders
                PROVE  /\ Len(log[o]) <= 1
                       /\ \A i \in DOMAIN log[o] :
                             log[o][i].to # "rejected" => log[o][i].by = row[o].approver
    BY DEF DecidedOnce
  <2>1. CASE log[o] = <<>>
    BY <2>1
  <2>2. ASSUME NEW e \in LogEntry, log[o] = <<e>>,
               e.to # "rejected" => Approved(o) /\ e.by = row[o].approver
        PROVE  /\ Len(log[o]) <= 1
               /\ \A i \in DOMAIN log[o] :
                     log[o][i].to # "rejected" => log[o][i].by = row[o].approver
    BY <2>2
  <2>. QED BY <2>1, <2>2 DEF IInv, LogInv
<1>. QED BY <1>1, Inductive, PTL

------------------------------------------------------------------------------
(* Approvals are final. *)

LEMMA StepKeepsApproval ==
    ASSUME IInv, Next, NEW o \in Orders, Approved(o)
    PROVE  row'[o].approver = row[o].approver /\ row'[o].sla = row[o].sla
<1>. DEFINE Same == row'[o].approver = row[o].approver /\ row'[o].sla = row[o].sla
<1>1. row \in [Orders -> Row] /\ row[o] \in Row /\ row[o].gov # "submitted" /\ Exists(o)
  BY IInvByParts DEF TypeOK, Approved, OrderInv, RowInv, NoRow
<1>2. ASSUME NEW p \in Orders, NEW u \in Actors, NEW type \in Types,
             NEW pr \in Priorities, NEW a \in Assignees \cup {None}, Insert(p, type, u, pr, a)
      PROVE  Same
  BY <1>1, <1>2 DEF Insert, Exists
<1>3. ASSUME NEW r \in Requests, Proceed(r) PROVE Same
  <2>1. CASE ReadGovernance(r) \/ ReadExecution(r) \/ LogTransition(r) \/ Abandon(r)
    BY <2>1 DEF ReadGovernance, ReadExecution, LogTransition, Abandon
  <2>2. CASE StampWorkOrderApproval(r) \/ TransitionEmergency(r)
    BY <1>1, <2>2 DEF StampWorkOrderApproval, TransitionEmergency
  <2>3. CASE UpdateGovernanceStatus(r)
    BY <1>1, <2>3 DEF UpdateGovernanceStatus, Row
  <2>4. CASE UpdateExecutionStatus(r)
    BY <1>1, <2>4 DEF UpdateExecutionStatus, Row
  <2>5. CASE Update(r)
    BY <1>1, <2>5 DEF Update, Row
  <2>6. CASE Delete(r) \/ AutoCloseRelocation(r)
    BY <1>1, <2>6 DEF Delete, AutoCloseRelocation, Row
  <2>7. CASE AssignWorkOrder(r)
    BY <1>1, <2>7 DEF AssignWorkOrder, Row
  <2>. QED BY <1>3, <2>1, <2>2, <2>3, <2>4, <2>5, <2>6, <2>7 DEF Proceed
<1>4. ASSUME NEW r \in Requests, NEW p \in Orders, Arrive(r, p) PROVE Same
  <2>1. CASE CreateEmergency(r, p)
    BY <1>2, <2>1, PeopleAssumption DEF CreateEmergency, Actors, Types
  <2>2. CASE UNCHANGED row
    BY <2>2
  <2>. QED BY <1>4, <2>1, <2>2 DEF Arrive, SelectRelocation, Gate, GateEdit, GateAssign
<1>. QED BY <1>2, <1>3, <1>4 DEF Next, Create

\* The approver and the deadline of an approved order never change.
THEOREM ApprovalNeverRewritten == Spec => ApprovalIsFinal
<1>1. IInv /\ [Next]_vars =>
        [\A o \in Orders : Approved(o)
           => row'[o].approver = row[o].approver /\ row'[o].sla = row[o].sla]_vars
  BY StepKeepsApproval
<1>. QED BY <1>1, Inductive, PTL DEF Spec, ApprovalIsFinal

------------------------------------------------------------------------------
(* WorkOrder implements OrderLifecycle. *)

\* How a step shows in the abstract specification: as a change at one order.
Shows(o, status, requestor, approver) ==
    /\ lifeOf' = [lifeOf EXCEPT ![o] = status]
    /\ requestorOf' = [requestorOf EXCEPT ![o] = requestor]
    /\ approverOf' = [approverOf EXCEPT ![o] = approver]

Writes(o, w) == row'[o] = w /\ \A p \in Orders \ {o} : row'[p] = row[p]

LEMMA AbstractRow ==
    ASSUME NEW o \in Orders, NEW w \in Row, Writes(o, w), w.type # "relocation"
    PROVE  Shows(o, w.status, w.requestor, w.approver)
  BY DEF Shows, Writes, lifeOf, requestorOf, approverOf, Ordinary

\* A step that changes neither type nor status nor people does not show.
LEMMA AbstractStutter ==
    ASSUME \A o \in Orders : /\ row'[o].type = row[o].type
                             /\ Ordinary(o) => /\ row'[o].status = row[o].status
                                               /\ row'[o].requestor = row[o].requestor
                                               /\ row'[o].approver = row[o].approver
    PROVE  UNCHANGED Lifecycle!lifeVars
<1>1. lifeOf' = lifeOf /\ requestorOf' = requestorOf /\ approverOf' = approverOf
  BY DEF lifeOf, requestorOf, approverOf, Ordinary
<1>. QED BY <1>1 DEF Lifecycle!lifeVars

LEMMA InsertSimulation ==
    ASSUME IInv, NEW o \in Orders, NEW u \in Actors, NEW type \in Types,
           NEW p \in Priorities, NEW a \in Assignees \cup {None}, Insert(o, type, u, p, a)
    PROVE  Lifecycle!LifeNext \/ UNCHANGED Lifecycle!lifeVars
<1>1. PICK w \in Row :
          /\ Writes(o, w)
          /\ w.status = "submitted" /\ w.type = type /\ w.requestor = u /\ w.approver = None
  <2>. DEFINE w == [NoRow EXCEPT !.type = type, !.status = "submitted", !.priority = p,
                                 !.requestor = u, !.assignee = a]
  <2>1. w \in Row
    BY DEF NoRow, Row, Types, Statuses, Execs, Govs
  <2>2. w.status = "submitted" /\ w.type = type /\ w.requestor = u /\ w.approver = None
    BY DEF NoRow
  <2>3. Writes(o, w)
    BY DEF Insert, Writes, IInv, TypeOK
  <2>. QED BY <2>1, <2>2, <2>3
<1>2. row[o] = NoRow
  BY IInvByParts DEF Insert, OrderInv, RowInv, Exists
<1>3. lifeOf[o] = "absent" /\ requestorOf[o] = None /\ approverOf[o] = None
  BY <1>2 DEF lifeOf, requestorOf, approverOf, NoRow
<1>4. CASE type # "relocation"
  <2>1. /\ lifeOf' = [lifeOf EXCEPT ![o] = "submitted"]
        /\ requestorOf' = [requestorOf EXCEPT ![o] = u]
        /\ approverOf' = [approverOf EXCEPT ![o] = None]
    BY <1>1, <1>4, AbstractRow DEF Shows
  <2>2. approverOf' = approverOf
    BY <1>3, <2>1 DEF approverOf
  <2>3. Lifecycle!Submit(o, u)
    BY <1>3, <2>1, <2>2 DEF Lifecycle!Submit, Lifecycle!Move
  <2>. QED BY <2>3 DEF Lifecycle!LifeNext, Actors
<1>5. CASE type = "relocation"
  <2>1. lifeOf' = lifeOf /\ requestorOf' = requestorOf /\ approverOf' = approverOf
    BY <1>1, <1>2, <1>5 DEF Writes, lifeOf, requestorOf, approverOf, Ordinary, NoRow
  <2>. QED BY <2>1 DEF Lifecycle!lifeVars
<1>. QED BY <1>4, <1>5

\* What a request has in hand when it writes.
LEMMA InHand ==
    ASSUME IInv, NEW r \in Requests, req[r].pc # "idle"
    PROVE  \E o \in Orders : /\ req[r].order = o
                             /\ RequestInv(r)
                             /\ row \in [Orders -> Row] /\ row[o] \in Row
                             /\ OrderInv(o) /\ Exists(o)
  BY IInvByParts DEF TypeOK, RequestInv

LEMMA StampSimulation ==
    ASSUME IInv, NEW r \in Requests, StampWorkOrderApproval(r)
    PROVE  Lifecycle!LifeNext \/ UNCHANGED Lifecycle!lifeVars
<1>1. PICK o \in Orders : /\ req[r].order = o /\ RequestInv(r) /\ OrderInv(o)
                          /\ row \in [Orders -> Row] /\ row[o] \in Row /\ Exists(o)
  BY InHand DEF StampWorkOrderApproval
<1>2. /\ row[o].gov = "submitted"
      /\ req[r].user \in Approvers \ {row[o].requestor}
      /\ req[r].seen.priority \in Priorities
  BY <1>1 DEF StampWorkOrderApproval, RequestInv
<1>3. PICK w \in Row : /\ Writes(o, w)
                       /\ w.type = row[o].type /\ w.status = "approved"
                       /\ w.requestor = row[o].requestor /\ w.approver = req[r].user
  <2>. DEFINE w == [row[o] EXCEPT !.gov = "approved", !.status = "approved",
                                 !.approver = req[r].user, !.sla = req[r].seen.priority]
  <2>1. w \in Row
    <3>1. row[o] \in Row /\ req[r].user \in Actors /\ req[r].seen.priority \in Priorities
      BY <1>1, <1>2, PeopleAssumption DEF Actors
    <3>. QED BY <3>1 DEF Row, Statuses, Govs
  <2>2. Writes(o, w)
    BY <1>1 DEF StampWorkOrderApproval, Writes
  <2>3. /\ w.type = row[o].type /\ w.status = "approved"
        /\ w.requestor = row[o].requestor /\ w.approver = req[r].user
    BY <1>1 DEF Row
  <2>. QED BY <2>1, <2>2, <2>3
<1>4. CASE Ordinary(o)
  <2>1. row[o].status = "submitted"
    BY <1>1, <1>2, <1>4 DEF OrderInv, Approved, DeriveStatus
  <2>2. /\ lifeOf' = [lifeOf EXCEPT ![o] = "approved"]
        /\ requestorOf' = [requestorOf EXCEPT ![o] = row[o].requestor]
        /\ approverOf' = [approverOf EXCEPT ![o] = req[r].user]
    <3>1. w.type # "relocation"
      BY <1>3, <1>4 DEF Ordinary
    <3>2. Shows(o, w.status, w.requestor, w.approver)
      BY <1>3, <3>1, AbstractRow
    <3>. QED BY <1>3, <3>2 DEF Shows
  <2>3. lifeOf[o] = "submitted" /\ requestorOf[o] = row[o].requestor
    BY <1>4, <2>1 DEF lifeOf, requestorOf
  <2>4. requestorOf' = requestorOf
    BY <2>2, <2>3 DEF requestorOf
  <2>5. Lifecycle!Decide(o, req[r].user, "approved")
    BY <1>2, <2>2, <2>3, <2>4 DEF Lifecycle!Decide, Lifecycle!Move
  <2>. QED BY <1>2, <2>5, PeopleAssumption DEF Lifecycle!LifeNext
<1>5. CASE ~Ordinary(o)
  BY <1>3, <1>5, AbstractStutter DEF Writes, Ordinary
<1>. QED BY <1>4, <1>5

LEMMA GovernanceSimulation ==
    ASSUME IInv, NEW r \in Requests, UpdateGovernanceStatus(r)
    PROVE  Lifecycle!LifeNext \/ UNCHANGED Lifecycle!lifeVars
<1>1. PICK o \in Orders : /\ req[r].order = o /\ RequestInv(r) /\ OrderInv(o)
                          /\ row \in [Orders -> Row] /\ row[o] \in Row /\ Exists(o)
  BY InHand DEF UpdateGovernanceStatus
<1>2. /\ req[r].op \in {"rejected", "verified"}
      /\ req[r].op = "rejected" => /\ row[o].gov = "submitted"
                                   /\ req[r].user \in Approvers \ {row[o].requestor}
      /\ req[r].op = "verified" => /\ row[o].gov = "approved"
                                   /\ Ordinary(o) => row[o].exec = "done"
  BY <1>1 DEF UpdateGovernanceStatus, RequestInv
<1>3. PICK w \in Row : /\ Writes(o, w)
                       /\ w.type = row[o].type /\ w.status = req[r].op
                       /\ w.requestor = row[o].requestor /\ w.approver = row[o].approver
  <2>. DEFINE w == [row[o] EXCEPT !.gov = req[r].op, !.status = req[r].op]
  <2>1. w \in Row
    <3>1. row[o] \in Row /\ req[r].op \in Statuses /\ req[r].op \in Govs
      BY <1>1, <1>2 DEF Statuses, Govs
    <3>. QED BY <3>1 DEF Row
  <2>2. Writes(o, w)
    BY <1>1, <1>2 DEF UpdateGovernanceStatus, DeriveStatus, Writes
  <2>3. /\ w.type = row[o].type /\ w.status = req[r].op
        /\ w.requestor = row[o].requestor /\ w.approver = row[o].approver
    BY <1>1 DEF Row
  <2>. QED BY <2>1, <2>2, <2>3
<1>4. CASE Ordinary(o)
  <2>1. /\ lifeOf' = [lifeOf EXCEPT ![o] = req[r].op]
        /\ requestorOf' = [requestorOf EXCEPT ![o] = row[o].requestor]
        /\ approverOf' = [approverOf EXCEPT ![o] = row[o].approver]
    <3>1. w.type # "relocation"
      BY <1>3, <1>4 DEF Ordinary
    <3>2. Shows(o, w.status, w.requestor, w.approver)
      BY <1>3, <3>1, AbstractRow
    <3>. QED BY <1>3, <3>2 DEF Shows
  <2>2. /\ lifeOf[o] = row[o].status /\ requestorOf[o] = row[o].requestor
        /\ approverOf[o] = row[o].approver
    BY <1>4 DEF lifeOf, requestorOf, approverOf
  <2>3. requestorOf' = requestorOf /\ approverOf' = approverOf
    BY <2>1, <2>2 DEF requestorOf, approverOf
  <2>4. CASE req[r].op = "rejected"
    <3>1. lifeOf[o] = "submitted"
      BY <1>1, <1>2, <1>4, <2>2, <2>4 DEF OrderInv, Approved, DeriveStatus
    <3>2. Lifecycle!Decide(o, req[r].user, "rejected")
      BY <1>2, <2>1, <2>2, <2>3, <2>4, <3>1 DEF Lifecycle!Decide, Lifecycle!Move
    <3>. QED BY <1>2, <2>4, <3>2, PeopleAssumption DEF Lifecycle!LifeNext
  <2>5. CASE req[r].op = "verified"
    <3>1. lifeOf[o] = "completed"
      BY <1>1, <1>2, <1>4, <2>2, <2>5 DEF OrderInv, DeriveStatus
    <3>2. Lifecycle!Advance(o)
      BY <2>1, <2>3, <2>5, <3>1 DEF Lifecycle!Advance, Lifecycle!Move
    <3>. QED BY <3>2 DEF Lifecycle!LifeNext
  <2>. QED BY <1>2, <2>4, <2>5
<1>5. CASE ~Ordinary(o)
  BY <1>3, <1>5, AbstractStutter DEF Writes, Ordinary
<1>. QED BY <1>4, <1>5

LEMMA ExecutionSimulation ==
    ASSUME IInv, NEW r \in Requests, UpdateExecutionStatus(r)
    PROVE  Lifecycle!LifeNext \/ UNCHANGED Lifecycle!lifeVars
<1>1. PICK o \in Orders : /\ req[r].order = o /\ RequestInv(r) /\ OrderInv(o)
                          /\ row \in [Orders -> Row] /\ row[o] \in Row /\ Exists(o)
  BY InHand DEF UpdateExecutionStatus
<1>. DEFINE e == ExecOf(req[r].op)
<1>2. /\ <<row[o].exec, e>> \in validExecTransitions
      /\ req[r].op \in ExecTargets
      /\ req[r].op = "in_progress" => Approved(o)
      /\ req[r].seen.gov \in {"approved", "verified"}
      /\ Ordinary(o) => req[r].seen.gov = "approved"
  BY <1>1 DEF UpdateExecutionStatus, RequestInv
<1>3. e \in Execs /\ DeriveStatus(e, req[r].seen.gov) \in Statuses
  BY <1>2 DEF ExecOf, ExecTargets, Execs, DeriveStatus, Statuses
<1>4. PICK w \in Row : /\ Writes(o, w)
                       /\ w.type = row[o].type /\ w.status = DeriveStatus(e, req[r].seen.gov)
                       /\ w.requestor = row[o].requestor /\ w.approver = row[o].approver
  <2>1. PICK x \in Execs, st \in Statuses : x = e /\ st = DeriveStatus(e, req[r].seen.gov)
    BY <1>3
  <2>. DEFINE w == [row[o] EXCEPT !.exec = x, !.status = st]
  <2>2. w \in Row
    <3>1. row[o] \in Row
      BY <1>1
    <3>. QED BY <3>1 DEF Row
  <2>3. Writes(o, w)
    <3>1. row' = [row EXCEPT ![o].exec = x, ![o].status = st]
      BY <1>1, <2>1 DEF UpdateExecutionStatus
    <3>. QED BY <1>1, <3>1 DEF Writes
  <2>4. /\ w.type = row[o].type /\ w.status = st
        /\ w.requestor = row[o].requestor /\ w.approver = row[o].approver
    BY <1>1 DEF Row
  <2>. QED BY <2>1, <2>2, <2>3, <2>4
<1>5. CASE Ordinary(o)
  <2>1. row[o].gov = "approved"
    BY <1>1, <1>2 , <1>5 DEF OrderInv, Approved, validExecTransitions, ExecOf, ExecTargets
  <2>2. \/ row[o].status = "approved" /\ w.status = "in_progress"
        \/ row[o].status = "in_progress" /\ w.status = "completed"
    BY <1>1, <1>2, <1>4, <1>5, <2>1 DEF OrderInv, DeriveStatus, validExecTransitions
  <2>3. Shows(o, w.status, row[o].requestor, row[o].approver)
    <3>1. w.type # "relocation"
      BY <1>4, <1>5 DEF Ordinary
    <3>. QED BY <1>4, <3>1, AbstractRow
  <2>4. /\ lifeOf[o] = row[o].status
        /\ requestorOf' = requestorOf /\ approverOf' = approverOf
    <3>1. /\ lifeOf[o] = row[o].status /\ requestorOf[o] = row[o].requestor
          /\ approverOf[o] = row[o].approver
      BY <1>5 DEF lifeOf, requestorOf, approverOf
    <3>2. /\ requestorOf' = [requestorOf EXCEPT ![o] = requestorOf[o]]
          /\ approverOf' = [approverOf EXCEPT ![o] = approverOf[o]]
      BY <2>3, <3>1 DEF Shows
    <3>. QED BY <3>1, <3>2 DEF requestorOf, approverOf
  <2>5. Lifecycle!Advance(o)
    BY <2>2, <2>3, <2>4 DEF Shows, Lifecycle!Advance, Lifecycle!Move
  <2>. QED BY <2>5 DEF Lifecycle!LifeNext
<1>6. CASE ~Ordinary(o)
  BY <1>4, <1>6, AbstractStutter DEF Writes, Ordinary
<1>. QED BY <1>5, <1>6

LEMMA EmergencySimulation ==
    ASSUME IInv, NEW r \in Requests, TransitionEmergency(r)
    PROVE  Lifecycle!LifeNext \/ UNCHANGED Lifecycle!lifeVars
<1>1. PICK o \in Orders : /\ req[r].order = o /\ RequestInv(r) /\ OrderInv(o)
                          /\ row \in [Orders -> Row] /\ row[o] \in Row /\ Exists(o)
  BY InHand DEF TransitionEmergency
<1>2. /\ row[o].gov = "submitted" /\ row[o].exec = "pending" /\ row[o].type = "emergency"
      /\ req[r].user = System
  BY <1>1 DEF TransitionEmergency, RequestInv
<1>3. PICK w \in Row : /\ Writes(o, w)
                       /\ w.type = "emergency" /\ w.status = "in_progress"
                       /\ w.requestor = row[o].requestor /\ w.approver = System
  <2>. DEFINE w == [row[o] EXCEPT !.gov = "approved", !.exec = "working",
                                 !.status = "in_progress", !.approver = System,
                                 !.sla = "critical"]
  <2>1. w \in Row
    <3>1. row[o] \in Row /\ System \in Actors /\ "critical" \in Priorities
      BY <1>1, PeopleAssumption DEF Actors
    <3>. QED BY <3>1 DEF Row, Statuses, Execs, Govs
  <2>2. Writes(o, w)
    BY <1>1, <1>2 DEF TransitionEmergency, Writes
  <2>3. /\ w.type = "emergency" /\ w.status = "in_progress"
        /\ w.requestor = row[o].requestor /\ w.approver = System
    BY <1>1, <1>2 DEF Row
  <2>. QED BY <2>1, <2>2, <2>3
<1>4. Ordinary(o) /\ row[o].status = "submitted"
  BY <1>1, <1>2 DEF Ordinary, OrderInv, DeriveStatus
<1>5. Shows(o, "in_progress", row[o].requestor, System)
  <2>1. Shows(o, w.status, w.requestor, w.approver)
    BY <1>3, AbstractRow
  <2>. QED BY <1>3, <2>1
<1>6. lifeOf[o] = "submitted" /\ requestorOf' = requestorOf
  BY <1>4, <1>5 DEF Shows, lifeOf, requestorOf
<1>7. Lifecycle!StartEmergency(o)
  BY <1>5, <1>6 DEF Shows, Lifecycle!StartEmergency, Lifecycle!Move
<1>. QED BY <1>7 DEF Lifecycle!LifeNext

\* Edits, and the detector's writes to relocation orders, do not show.
LEMMA HiddenWrites ==
    ASSUME IInv, NEW r \in Requests,
           Update(r) \/ Delete(r) \/ AssignWorkOrder(r) \/ AutoCloseRelocation(r)
    PROVE  UNCHANGED Lifecycle!lifeVars
<1>1. PICK o \in Orders : /\ req[r].order = o /\ RequestInv(r) /\ OrderInv(o)
                          /\ row \in [Orders -> Row] /\ row[o] \in Row /\ Exists(o)
  BY InHand DEF Update, Delete, AssignWorkOrder, AutoCloseRelocation
<1>. DEFINE Hidden == \A p \in Orders :
                /\ row'[p].type = row[p].type
                /\ Ordinary(p) => /\ row'[p].status = row[p].status
                                  /\ row'[p].requestor = row[p].requestor
                                  /\ row'[p].approver = row[p].approver
<1>2. CASE Update(r)
  <2>1. PICK p \in Priorities, a \in Assignees \cup {row[o].assignee} :
            row' = [row EXCEPT ![o].priority = p, ![o].assignee = a]
    BY <1>1, <1>2 DEF Update
  <2>. QED BY <1>1, <2>1, AbstractStutter DEF Row
<1>3. CASE Delete(r)
  BY <1>1, <1>3, AbstractStutter DEF Delete, Row
<1>4. CASE AssignWorkOrder(r)
  <2>1. PICK a \in Assignees : row' = [row EXCEPT ![o].assignee = a]
    BY <1>1, <1>4 DEF AssignWorkOrder
  <2>. QED BY <1>1, <2>1, AbstractStutter DEF Row
<1>5. CASE AutoCloseRelocation(r)
  <2>1. row' = [row EXCEPT ![o].status = "completed"] /\ row[o].type = "relocation"
    BY <1>1, <1>5 DEF AutoCloseRelocation, RequestInv
  <2>2. Hidden
    BY <1>1, <2>1 DEF Row, Ordinary
  <2>. QED BY <2>2, AbstractStutter
<1>. QED BY <1>2, <1>3, <1>4, <1>5

LEMMA StepSimulation ==
    ASSUME IInv, [Next]_vars
    PROVE  [Lifecycle!LifeNext]_Lifecycle!lifeVars
<1>. DEFINE Goal == Lifecycle!LifeNext \/ UNCHANGED Lifecycle!lifeVars
<1>1. CASE UNCHANGED row
  BY <1>1, AbstractStutter
<1>2. ASSUME NEW o \in Orders, NEW u \in Actors, NEW type \in Types, NEW p \in Priorities,
             NEW a \in Assignees \cup {None}, Create(o, u, type, p, a)
      PROVE  Goal
  BY <1>2, InsertSimulation DEF Create
<1>3. ASSUME NEW r \in Requests, Proceed(r) PROVE Goal
  <2>1. CASE ReadGovernance(r) \/ ReadExecution(r) \/ LogTransition(r) \/ Abandon(r)
    BY <1>1, <2>1 DEF ReadGovernance, ReadExecution, LogTransition, Abandon
  <2>. QED BY <1>3, <2>1, StampSimulation, GovernanceSimulation, ExecutionSimulation,
              EmergencySimulation, HiddenWrites DEF Proceed
<1>4. ASSUME NEW r \in Requests, NEW o \in Orders, Arrive(r, o) PROVE Goal
  <2>1. CASE CreateEmergency(r, o)
    <3>1. System \in Actors /\ "emergency" \in Types /\ "critical" \in Priorities
      BY PeopleAssumption DEF Actors, Types
    <3>. QED BY <2>1, <3>1, InsertSimulation DEF CreateEmergency
  <2>2. CASE UNCHANGED row
    BY <1>1, <2>2
  <2>. QED BY <1>4, <2>1, <2>2 DEF Arrive, SelectRelocation, Gate, GateEdit, GateAssign
<1>. QED BY <1>1, <1>2, <1>3, <1>4 DEF Next, vars

LEMMA InitSimulation == Init => Lifecycle!LifeInit
  BY DEF Init, NoRow, Lifecycle!LifeInit, lifeOf, requestorOf, approverOf

\* The two-column, multi-statement implementation behaves as the abstract
\* lifecycle: every order only the service writes is decided once, by somebody
\* entitled to, and passes through the statuses in order.
THEOREM Refinement == Spec => ImplementsLifecycle
<1>1. Init => Lifecycle!LifeInit
  BY InitSimulation
<1>2. IInv /\ [Next]_vars => [Lifecycle!LifeNext]_Lifecycle!lifeVars
  BY StepSimulation
<1>. QED BY <1>1, <1>2, Inductive, PTL DEF Spec, ImplementsLifecycle, Lifecycle!LifeSpec

\* The three facts about approval and work together.
THEOREM ApprovedWork == Spec => []WorkFollowsApproval
<1>1. NoWorkWithoutApproval /\ VerifiedWorkWasDone /\ SegregationOfDuties => WorkFollowsApproval
  BY DEF WorkFollowsApproval
<1>2. QED
  BY <1>1, ApprovalFirst, DoneFirst, OthersApprove, PTL
==============================================================================
