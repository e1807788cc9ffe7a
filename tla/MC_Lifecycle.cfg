\* A TDM410 whose modules answer on the alternate chip select, every mix
\* of FXS, FXO, QRV and empty ports, probed and registered; then one
\* channel opened and closed three times, with the removal landing at
\* every step of every open and close.
CONSTANTS
    Users = {u1}
    MaxOpens = 3
    Ports = 4
    WireKinds = {"alt"}
SPECIFICATION Spec
INVARIANT TypeOK DetectedAsPlugged CmdByteDistinct
PROPERTY DetectDone
CHECK_DEADLOCK FALSE
