SPECIFICATION FairSpec
CONSTANTS
    Threads = {t1, t2}
    Keys = {k1, k2}
    Pages = {p1, p2}
    Pos <- TwoPos
    Ranges <- Whole
    Values = {a}
    Ops <- AllOps
    VerMod = 2
    SafeMode = TRUE
    EnableNvmCache = TRUE
    FileLocked = FALSE
    MaxOps = 3
    NoPage = NoPage
    NoVal = NoVal
INVARIANTS TypeOK PageLockExclusion SnapshotRead CountAccurate SafeModeExclusion
PROPERTIES CallsReturn
CHECK_DEADLOCK FALSE
