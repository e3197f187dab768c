SPECIFICATION Spec
CONSTANTS
    Tenants = {t1}
    Readers = {r1, r2}
    NoTenant = NoTenant
    Fields <- FieldSeq
    Soft <- SoftSet
    SubjectOf <- Subjects
    statsCacheTTL = 2
    MaxCompute = 1
    MaxChanges = 1
    MaxFailures = 1
INVARIANTS ServedWithinTTL
PROPERTY ConvergesToTruth
