----------------------------- MODULE MCWorkOrder -----------------------------
(* Instances of WorkOrder for TLC. *)
EXTENDS WorkOrder, TLC

CONSTANTS o1, ann, bob, cat, r1, r2, system, null

MCOrders == {o1}
TwoRequests == {r1, r2}
MCUsers == {ann, bob, cat}
TwoApprovers == {ann, bob}
OneAssignee == {cat}
MCPriorities == {"critical", "low"}

\* Requests are interchangeable, and so are the two approvers.
MCSymmetry == Permutations(Requests) \cup Permutations(Approvers)
==============================================================================
