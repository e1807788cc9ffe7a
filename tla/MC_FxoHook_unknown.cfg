\* The battery debounce starting from BATTERY_UNKNOWN.
CONSTANTS
    Voltages <- MC_Voltages
    RingBits <- MC_RingBits
    battthresh = 2
    battdebounce = 2
    battalarm = 4
    ringdebounce = 32
    POLARITY_DEBOUNCE = 2
    DAHDI_CHUNKSIZE = 8
    neonmwi_level = 2
    neonmwi_envelope = 1
    neonmwi_offlimit = 3
    NEONMWI_ON_DEBOUNCE = 1
SPECIFICATION Spec
PROPERTY BatteryDebouncedFromUnknown
