\* The QRV receive debounce with debounce times of at least 2, radio mode
\* changes, keying and a close whose stores interleave with the interrupt.
CONSTANTS
    QRV_DEBOUNCETIME = 3
    DebounceTimes = {2, 3}
    Params = {"INVERTCOR", "IGNORECOR", "IGNORECT", "EXTRXTONE", "DEBOUNCETIME"}
    MaxInputs = 2
    MaxIoctls = 1
    MaxCloses = 1
SPECIFICATION Spec
INVARIANT TypeOK
PROPERTIES QrvDebounced
