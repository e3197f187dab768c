CONSTANTS
    o1 = o1  r1 = r1  r2 = r2
    ann = ann  bob = bob  cat = cat
    system = system  null = null
    Orders <- MCOrders
    Requests <- TwoRequests
    Users <- MCUsers
    Approvers <- TwoApprovers
    Assignees <- OneAssignee
    System <- system
    None <- null
    Priorities <- MCPriorities
SPECIFICATION Spec
INVARIANTS DerivedStatus WorkFollowsApproval DecidedOnce
PROPERTIES ImplementsLifecycle
SYMMETRY MCSymmetry
CHECK_DEADLOCK FALSE
