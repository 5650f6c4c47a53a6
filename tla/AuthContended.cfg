\* Local mode, overlapping calls, with a clock that reaches a second session.
SPECIFICATION Spec
CONSTANTS
    Handlers = {h1, h2}
    Macs = {m1, m2}
    BadMac = BadMac
    small = small
    large = large
    empty = empty
    foreign = foreign
    Tokens = {small, large}
    Amount <- MCAmount
    TestMints <- MCTestMints
    SharedTokens = {small}
    AuthMode = "local"
    RateSecPerSat = 1
    MaxSeconds = 2
    TicksPerSec = 2
    Retention = 1
    MaxTime = 4
    NoSession = NoSession
    Corrupt = Corrupt
    NoRequest = NoRequest
SYMMETRY Symmetry
PROPERTY OpenSessionNotRemoved
