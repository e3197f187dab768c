SPECIFICATION Spec
CONSTANTS
    Orders = {o1, o2}
    Sweepers = {s1, s2}
    Users = {u1}
    None = None
    Priorities = {"critical"}
    Sla <- FourEach
    Interval = 1
    MaxTime = 5
    MaxFailures = 1
INVARIANTS NoticesAreExact
PROPERTIES OverdueIsMarked
CHECK_DEADLOCK FALSE
