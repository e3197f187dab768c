--------------------------- MODULE OrderLifecycle ---------------------------
(***************************************************************************)
(* What the maintenance service promises about a work order, with no       *)
(* requests, no database and no two status columns: an order is submitted, *)
(* decided once by somebody entitled to decide, worked on, completed and   *)
(* verified, and each of those happens at one instant.  WorkOrder is shown *)
(* to implement this module for every order whose only writer is the       *)
(* maintenance service.                                                    *)
(***************************************************************************)
CONSTANTS
    Orders,      \* work order identities
    Users,       \* human users of the tenant
    Approvers,   \* users holding super-admin or ops-admin
    System,      \* the tenant's system user
    None         \* SQL NULL

VARIABLES
    life,        \* the unified status the API shows
    requestor,   \* who submitted the order
    approver     \* who approved it

lifeVars == <<life, requestor, approver>>

LifeInit ==
    /\ life = [o \in Orders |-> "absent"]
    /\ requestor = [o \in Orders |-> None]
    /\ approver = [o \in Orders |-> None]

\* One legal move of an order, with the people of the order left as they are.
Move(o, from, to) ==
    /\ life[o] = from
    /\ life' = [life EXCEPT ![o] = to]

Submit(o, u) ==
    /\ Move(o, "absent", "submitted")
    /\ requestor' = [requestor EXCEPT ![o] = u]
    /\ UNCHANGED approver

\* A decision is taken by an approver other than the requestor.
Decide(o, u, verdict) ==
    /\ u \in Approvers
    /\ u # requestor[o]
    /\ Move(o, "submitted", verdict)
    /\ approver' = IF verdict = "approved" THEN [approver EXCEPT ![o] = u] ELSE approver
    /\ UNCHANGED requestor

\* An emergency order is approved and started by the system in one step.
StartEmergency(o) ==
    /\ Move(o, "submitted", "in_progress")
    /\ approver' = [approver EXCEPT ![o] = System]
    /\ UNCHANGED requestor

Advance(o) ==
    /\ \/ Move(o, "approved", "in_progress")
       \/ Move(o, "in_progress", "completed")
       \/ Move(o, "completed", "verified")
    /\ UNCHANGED <<requestor, approver>>

LifeNext ==
    \E o \in Orders :
        \/ \E u \in Users \cup {System} : Submit(o, u)
        \/ \E u \in Users, verdict \in {"approved", "rejected"} : Decide(o, u, verdict)
        \/ StartEmergency(o)
        \/ Advance(o)

LifeSpec == LifeInit /\ [][LifeNext]_lifeVars
=============================================================================
