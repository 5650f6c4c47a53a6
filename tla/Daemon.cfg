\* Two shims for one slot, one web client, one accounting event.
SPECIFICATION Spec
CONSTANTS
    Shims = {c1, c2}
    WebClients = {w1}
    MaxAuth = 1
    Price = 2
    Events = {e1}
    StatusTypes = {"Stop", "15"}
    MaxFaults = 1
    Crashes = TRUE
INVARIANTS
    CountsMatch
    LedgerTellsAnswers
    OnlyFailuresSpoil
PROPERTIES
    DrainedExit
    ShutdownEnds
CONSTRAINT Apart
CHECK_DEADLOCK FALSE
