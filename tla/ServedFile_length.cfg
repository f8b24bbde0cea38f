SPECIFICATION Spec
CONSTANTS
    Requests = {r1, r2}
    MaxRequests = 3
    Setups <- Cases
    Modulus = 16
SYMMETRY Interchangeable
INVARIANTS
    LengthMatches
\* all requests are served
CHECK_DEADLOCK FALSE
