\* Main run: the line monitor under every sequence of samples, hook changes
\* and DAHDI_RXSIG_INITIAL resets.
CONSTANTS
    Voltages <- MC_Voltages
    RingBits <- MC_RingBits
    battthresh = 2
    battdebounce = 1
    battalarm = 2
    ringdebounce = 32
    POLARITY_DEBOUNCE = 2
    DAHDI_CHUNKSIZE = 8
    neonmwi_level = 2
    neonmwi_envelope = 1
    neonmwi_offlimit = 3
    NEONMWI_ON_DEBOUNCE = 1
SPECIFICATION Spec
INVARIANTS TypeOK NeonMwiLapses
PROPERTIES BatteryDebounced PolarityDebounced NeonMwiDebounced
