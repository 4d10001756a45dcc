SPECIFICATION FileSpec
CONSTANTS
    Key = {k1, k2, k3}
    Pass = {p1, p2}
    Plain = Plain
    MaxCrash = 2
INVARIANT KeysRecoverable
INVARIANT SessionComplete
CHECK_DEADLOCK FALSE
