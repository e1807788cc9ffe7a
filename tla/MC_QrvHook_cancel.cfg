\* With a debounce time of 1, a change of channel 0 found by the call for
\* card 1 reports at once and clears qrvdebtime[card], i.e. the running
\* debounce of channel 1, whose change is then never reported.
CONSTANTS
    QRV_DEBOUNCETIME = 3
    DebounceTimes = {1}
    Params = {"INVERTCOR", "DEBOUNCETIME"}
    MaxInputs = 0
    MaxIoctls = 2
    MaxCloses = 0
SPECIFICATION Spec
PROPERTY HookReported
