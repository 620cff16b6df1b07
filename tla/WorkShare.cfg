SPECIFICATION Spec
CONSTANTS
    Balancers = {b1, b2}
    Channels = 3
    Jobs = 3
INVARIANT TokensConserved
PROPERTY AllServed
CHECK_DEADLOCK FALSE
