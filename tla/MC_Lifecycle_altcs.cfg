\* A TDM410 whose modules answer on the normal chip select, with port 2
\* empty: the retry of port 2 on the alternate chip select also moves
\* ports 3 and 4, whose modules are then reported "Not installed".
CONSTANTS
    Users = {u1}
    MaxOpens = 1
    Ports = 4
    WireKinds = {"normal"}
SPECIFICATION Spec
INVARIANT DetectedAsPlugged
CHECK_DEADLOCK FALSE
