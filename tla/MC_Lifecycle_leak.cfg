\* Two channels opened concurrently: usecount++ and usecount-- race.
CONSTANTS
    Users = {u1, u2}
    MaxOpens = 1
    Ports = 4
    WireKinds = {"alt"}
SPECIFICATION Spec
PROPERTY Released
CHECK_DEADLOCK FALSE
