\* Delegated mode, with fairness: two calls for one identifier.
SPECIFICATION FairSpec
CONSTANTS
    Handlers = {h1, h2}
    Macs = {m1}
    BadMac = BadMac
    small = small
    large = large
    empty = empty
    foreign = foreign
    Tokens = {small, foreign, empty}
    Amount <- MCAmount
    TestMints <- MCTestMints
    SharedTokens = {}
    AuthMode = "delegated"
    RateSecPerSat = 1
    MaxSeconds = 1
    TicksPerSec = 2
    Retention = 0
    MaxTime = 3
    NoSession = NoSession
    Corrupt = Corrupt
    NoRequest = NoRequest
INVARIANTS
    PaidWindowKept
    PaidCustomerAdmitted
PROPERTIES
    Answered
    GarbageGoes
