\* All logins over lengths that are short, a first part's, a whole token's, and a
\* rest's that just fits or does not; two operators.
SPECIFICATION Spec
CONSTANTS
    Lengths = {0, 8, 60, 200, 7992, 7993}
    TokenSplitLen = 200
    MaxInputLen = 8192
    MaxOperators = 2
    Npubs = {"npub1a"}
    ClientIPs = {"10.0.0.1"}
    NASIDs = {"ap1", "AP1"}
    Fold <- MCFold
INVARIANTS
    PaymentComesThrough
    
CHECK_DEADLOCK FALSE
