SPECIFICATION Spec
CONSTANTS
    Adapters = {a1}
    Webhooks = {w1}
    Servers = {s1, s2}
    Configs = {c1}
    Empty = Empty
    Null = Null
    ActiveMeanwhile = 1
    MaxFailures = 1
PROPERTIES RotationCompletes ImplementsVault
