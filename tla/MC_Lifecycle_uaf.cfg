\* One channel: an open that has passed the dead test while the board is
\* removed with usecount still zero.
CONSTANTS
    Users = {u1}
    MaxOpens = 1
    Ports = 4
    WireKinds = {"alt"}
SPECIFICATION Spec
INVARIANT NoUseAfterFree
CHECK_DEADLOCK FALSE
