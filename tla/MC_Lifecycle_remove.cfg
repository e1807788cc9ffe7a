\* One channel, closed while the board is removed: wctdm_remove_one reads
\* usecount 1 (line 3855), the close brings it to 0 and finds dead still
\* clear, then remove sets dead (line 3860); nobody releases the board.
CONSTANTS
    Users = {u1}
    MaxOpens = 1
    Ports = 4
    WireKinds = {"alt"}
SPECIFICATION Spec
PROPERTY Released
CHECK_DEADLOCK FALSE
