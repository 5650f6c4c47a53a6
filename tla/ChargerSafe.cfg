\* Two requests, two tokens, one of them bound to the provider; restarts.
SPECIFICATION FairSpec
CONSTANTS
    Handlers = {h1, h2}
    short = short
    long = long
    Tokens = {short, long}
    BoundTokens = {long}
    Credit <- MCCredit
    Window <- MCWindow
    Period = 2
    Lag = 0
    Redeems = TRUE
    MaxTime = 4
    MaxMonitors = 1
    NoToken = NoToken
    NoSession = NoSession
    NoCDR = NoCDR
INVARIANTS
    TypeOK
    OneStartAtATime
    ChargeIsWatched
    OverdrawnByLessThanAPeriod
PROPERTY HeldUpEnds
