\* WCTDM_SET_REG of LINE_STATE with bit 3 set (fxstest setdirect 64 9):
\* lasttxhook keeps bit 3, which the read-back test masks away.
CONSTANTS
    reversepolarity = 0
    SIG = "FXOKS"
    OHT_TIMER = 2
    OhtSettings = {2}
    INTCOUNT_WRAP = 8
    RECHECK_MASK = 6
    PALARM_PERIOD = 8
    MAX_ALARMS = 2
    MaxPalarms = 4
    SETTLE_TRIES = 2
    RegopValues = {9}
    MaxTxsig = 0
    MaxIoctls = 1
    MaxPowerAlarms = 0
    MaxHookChanges = 0
SPECIFICATION Spec
CONSTRAINT PalarmsBound
PROPERTY PendingConfirmed
