SPECIFICATION MCSpec
CONSTANTS
    r1 = r1
    r2 = r2
    r3 = r3
    t1 = t1
    t2 = t2
    s1 = s1
    Requests = {r1, r2, r3}
    AssetIds = {a1, a2}
    NoAsset = NoAsset
    Tags = {t1, t2}
    NoTag = NoTag
    Discovered = {d1}
    NoRow = NoRow
    MaxFailures = 1
    synthAssetTag <- ShortIds
    Tasks = {k1}
    Sheets = {s1}
    Lines <- SheetLines
INVARIANTS NoCircularWait OnlyWaitersAreBlocked
PROPERTIES TasksAreSound ImplementsReview
SYMMETRY Symmetry
CHECK_DEADLOCK FALSE
