CONSTANTS
    Codes <- MCCodes
    Bodies <- MCBodies
    Predicates <- MCPredicates
    Accepts <- MCAccepts
    Intervals <- MCIntervals
    MaxSends = 2
    MaxBuild = 2
    MaxPolls = 2
SPECIFICATION Spec
INVARIANTS
    TypeOK
    SendContract
\* The caller's program ends after it reads the poll response: "done" has no successor.
CHECK_DEADLOCK FALSE
