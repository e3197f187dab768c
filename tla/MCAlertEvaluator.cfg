SPECIFICATION Safety
CONSTANTS
    p1 = p1
    p2 = p2
    cpu = cpu
    Replicas <- TwoReplicas
    Rules <- OneRule
    Triggers = 2
    MaxHour = 1
    MaxIncident = 2
    MaxFailures = 0
    MaxRestarts = 0
INVARIANTS FiringIsCovered
SYMMETRY Swap
