SPECIFICATION Spec
CONSTANTS
    p1 = p1
    p2 = p2
    cpu = cpu
    Replicas <- TwoReplicas
    Rules <- OneRule
    Triggers = 1
    MaxHour = 0
    MaxIncident = 2
    MaxFailures = 0
    MaxRestarts = 0
INVARIANT NotBothDecideNone
