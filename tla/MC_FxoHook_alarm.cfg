\* battalarm equal to battdebounce: the alarm timer is set to
\* (battalarm - battdebounce) / MS_PER_CHECK_HOOK = 0, so it never runs and
\* the channel alarm never follows the battery.
CONSTANTS
    Voltages <- MC_Voltages
    RingBits <- MC_RingBits
    battthresh = 2
    battdebounce = 1
    battalarm = 1
    ringdebounce = 32
    POLARITY_DEBOUNCE = 2
    DAHDI_CHUNKSIZE = 8
    neonmwi_level = 2
    neonmwi_envelope = 1
    neonmwi_offlimit = 3
    NEONMWI_ON_DEBOUNCE = 1
SPECIFICATION Spec
INVARIANT AlarmFollowsBattery
