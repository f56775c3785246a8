SPECIFICATION Spec
CONSTANTS
    Threads = {t1, t2}
    Keys = {k1}
    Pages = {p1, p2, p3}
    Pos <- TwoPos
    Ranges <- WholeOrFirst
    Values = {a, b}
    Ops <- AllOps
    VerMod = 3
    SafeMode = FALSE
    EnableNvmCache = FALSE
    FileLocked = TRUE
    MaxOps = 4
    NoPage = NoPage
    NoVal = NoVal
SYMMETRY Sym
INVARIANTS NoNullHandle ListAccurate
CHECK_DEADLOCK FALSE
