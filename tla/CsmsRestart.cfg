\* The CSMS is restarted and counts its transactions from 1001 again.
SPECIFICATION Spec
CONSTANTS
    Tokens = {t1}
    CdrIds <- MCCdrIds
    Charges <- MCCharges
    MaxKwh = 1
    Rotations = {r1}
    Redeems = TRUE
    Window = 2
    AuthorizeFor = 1
    MaxTime = 3
    MaxPeers = 2
    NoRecord = NoRecord
    NoCdr = NoCdr
    Unread = Unread
    Buyers = {b1, b2}
    Npubs = {n1, n2}
    EurTokens = {e1, e2}
    NoNpub = NoNpub
    NoEurToken = NoEurToken
    Stations = {c1, c2}
    MaxStarts = 3
    NoToken = NoToken
INVARIANTS
    IdsNeverReused
CONSTRAINT Apart
SYMMETRY Symmetry
CHECK_DEADLOCK FALSE
