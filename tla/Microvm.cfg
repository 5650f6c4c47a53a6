\* Two logins with one token, two machines; the address counter goes round.
SPECIFICATION Spec
CONSTANTS
    Vms = {v1, v2}
    MaxIp = 2
    MaxTime = 4
    MaxCalls = 3
    NoVm = NoVm
    Sessions = {s1, s2}
    Tokens = {t1}
    Paid = 1
    MaxAttempts = 1
    Margin = 2
    VmFallback = TRUE
    DirectTTLs = {0}
    NoToken = NoToken
INVARIANTS
    TypeOK
    HostMatchesTable
    AddressesApart
    JailsMatchSessions
PROPERTIES
    SessionKeepsVm
    MachinesEnd
CONSTRAINT OneExit
CHECK_DEADLOCK FALSE
