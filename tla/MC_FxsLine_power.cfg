\* The OPPENDING handshake recovering from a power alarm: the phone stays
\* on hook; one transmit signal and one power alarm.
CONSTANTS
    reversepolarity = 0
    SIG = "FXOKS"
    OHT_TIMER = 2
    OhtSettings = {2}
    INTCOUNT_WRAP = 8
    RECHECK_MASK = 6
    PALARM_PERIOD = 8
    MAX_ALARMS = 2
    MaxPalarms = 4
    SETTLE_TRIES = 2
    RegopValues = {}
    MaxTxsig = 1
    MaxIoctls = 0
    MaxPowerAlarms = 1
    MaxHookChanges = 0
SPECIFICATION Spec
CONSTRAINT PalarmsBound
PROPERTY PowerAlarmReset
