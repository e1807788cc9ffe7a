\* dahdi_register fails at the end of wctdm_init_one: the board, its
\* voicebus and its interrupts are never released.
CONSTANTS
    Users = {u1}
    MaxOpens = 1
    Ports = 4
    WireKinds = {"alt"}
SPECIFICATION Spec
INVARIANT FailedProbeReleases
CHECK_DEADLOCK FALSE
