SPECIFICATION Spec
CONSTANTS
    Hooks = {w1}
    Workers = {s1, s2}
    Threshold = 3
    MaxAttempts = 3
    LogMonths = 1
    DLQMonths = 3
    MaxErrors = 2
INVARIANTS DisabledHookHasParkedPayload
PROPERTIES DisabledHookFallsSilent DeadReceiverIsCutOff
