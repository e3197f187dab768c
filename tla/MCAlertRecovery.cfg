SPECIFICATION Spec
CONSTANTS
    p1 = p1
    p2 = p2
    cpu = cpu
    Replicas <- OneReplica
    Rules <- OneRule
    Triggers = 2
    MaxHour = 1
    MaxIncident = 2
    MaxFailures = 1
    MaxRestarts = 1
PROPERTY PersistentFaultIsTracked
PROPERTY RecoverySettlesTheHour
INVARIANT FiresAfterStreak
