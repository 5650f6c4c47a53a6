\* Local mode: two calls in flight, two identifiers, one shared token.
SPECIFICATION Spec
CONSTANTS
    Handlers = {h1, h2}
    Macs = {m1, m2}
    BadMac = BadMac
    small = small
    large = large
    empty = empty
    foreign = foreign
    Tokens = {small, large}
    Amount <- MCAmount
    TestMints <- MCTestMints
    SharedTokens = {small}
    AuthMode = "local"
    RateSecPerSat = 1
    MaxSeconds = 2
    TicksPerSec = 2
    Retention = 0
    MaxTime = 3
    NoSession = NoSession
    Corrupt = Corrupt
    NoRequest = NoRequest
SYMMETRY Symmetry
INVARIANTS
    TypeOK
    OneWindowPerToken
    AdmittedWithinPaidWindow
    PaidWindowKept
    PaidCustomerAdmitted
PROPERTY ImplementsGate
