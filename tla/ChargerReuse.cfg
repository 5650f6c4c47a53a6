\* The charger with redemption enabled.
SPECIFICATION Spec
CONSTANTS
    Handlers = {h1, h2}
    short = short
    long = long
    Tokens = {short, long}
    BoundTokens = {long}
    Credit <- MCCredit
    Window <- MCWindow
    Period = 2
    Lag = 1
    Redeems = TRUE
    MaxTime = 3
    MaxMonitors = 1
    NoToken = NoToken
    NoSession = NoSession
    NoCDR = NoCDR
PROPERTY OneChargePerToken
