\* Liveness of the OPPENDING handshake without power alarms: every request
\* is confirmed by a later recheck_sanity (one transmit signal, one ioctl).
CONSTANTS
    reversepolarity = 0
    SIG = "FXOKS"
    OHT_TIMER = 2
    OhtSettings = {2}
    INTCOUNT_WRAP = 8
    RECHECK_MASK = 6
    PALARM_PERIOD = 8
    MAX_ALARMS = 2
    MaxPalarms = 4
    SETTLE_TRIES = 2
    RegopValues = {}
    MaxTxsig = 1
    MaxIoctls = 1
    MaxPowerAlarms = 0
    MaxHookChanges = 0
SPECIFICATION Spec
CONSTRAINT PalarmsBound
PROPERTY PendingConfirmed
