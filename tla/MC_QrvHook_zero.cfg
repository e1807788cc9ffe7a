\* DAHDI_RADPAR_DEBOUNCETIME accepts 0: the debounce of channel 0 then
\* starts at 0, never counts down to 1, and the change is never reported.
CONSTANTS
    QRV_DEBOUNCETIME = 3
    DebounceTimes = {0}
    Params = {"INVERTCOR", "DEBOUNCETIME"}
    MaxInputs = 1
    MaxIoctls = 1
    MaxCloses = 0
SPECIFICATION Spec
PROPERTY HookReported
