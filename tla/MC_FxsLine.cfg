\* One FXS port with kewlstart signalling: a transmit signal, an ioctl, a
\* WCTDM_SET_REG of a valid linefeed, a power alarm and a hook change;
\* intcount kept modulo 8 with the recheck window (intcount & 6) == 0, two
\* of eight interrupts.
CONSTANTS
    reversepolarity = 0
    SIG = "FXOKS"
    OHT_TIMER = 2
    OhtSettings = {2}
    INTCOUNT_WRAP = 8
    RECHECK_MASK = 6
    PALARM_PERIOD = 8
    MAX_ALARMS = 2
    MaxPalarms = 4
    SETTLE_TRIES = 2
    RegopValues = {1}
    MaxTxsig = 1
    MaxIoctls = 1
    MaxPowerAlarms = 1
    MaxHookChanges = 1
SPECIFICATION Spec
CONSTRAINT PalarmsBound
INVARIANTS TypeOK
PROPERTIES HookDebounced
