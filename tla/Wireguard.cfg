\* Two keys, two requests, addresses .2 to .4 in the range and .5 outside of it.
SPECIFICATION Spec
CONSTANTS
    Handlers = {h1, h2}
    Keys = {k1, k2}
    Duration = 1
    TicksPerSec = 2
    ClientStart = 2
    ClientEnd = 4
    LastOctet = 5
    MaxNextIP = 4
    MaxTime = 4
    NoKey = NoKey
    NoPeer = NoPeer
    Absent = Absent
    Bare = Bare
    Torn = Torn
INVARIANTS
    TypeOK
    AddressesDistinct
    AccessIsRecorded
    PaidAccessWorks
PROPERTY
    PaidTimeServed
CONSTRAINT OneTrouble
SYMMETRY Symmetry
CHECK_DEADLOCK FALSE
