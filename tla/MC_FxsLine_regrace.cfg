\* WCTDM_SET_REG of LINE_STATE (a valid linefeed, 1) while a transmit
\* signal's linefeed is still queued in wc->sethook.
CONSTANTS
    reversepolarity = 0
    SIG = "FXOKS"
    OHT_TIMER = 2
    OhtSettings = {2}
    INTCOUNT_WRAP = 8
    RECHECK_MASK = 6
    PALARM_PERIOD = 8
    MAX_ALARMS = 2
    MaxPalarms = 4
    SETTLE_TRIES = 2
    RegopValues = {1}
    MaxTxsig = 1
    MaxIoctls = 1
    MaxPowerAlarms = 0
    MaxHookChanges = 0
SPECIFICATION Spec
CONSTRAINT PalarmsBound
PROPERTY PendingConfirmed
