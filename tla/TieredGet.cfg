SPECIFICATION Spec
CONSTANTS
    PageBodySize = 2
    FileSize = 5
    EnableLogging = TRUE
INVARIANTS NoUnderflow ServedFreshest 
CHECK_DEADLOCK FALSE
