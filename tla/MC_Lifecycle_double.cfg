\* Two channels open when the board is removed, closed concurrently.
CONSTANTS
    Users = {u1, u2}
    MaxOpens = 1
    Ports = 4
    WireKinds = {"alt"}
SPECIFICATION Spec
INVARIANT ReleaseOnce
CHECK_DEADLOCK FALSE
