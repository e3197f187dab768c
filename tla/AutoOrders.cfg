SPECIFICATION Spec
CONSTANTS
    Replicas = {p1, p2}
    Reasons = {1, 2}
    Batch = 1
    MaxOrders = 3
    MaxFailures = 2
INVARIANTS NoSurplusOrders
PROPERTIES PersistentReasonGetsAnOrder
