\* A close that races an input change: the interrupt sees the receive state
\* reset to 0xff (line 3066), starts a debounce for the new input, and the
\* close cancels it (qrvdebtime = 0, line 3068).  qrvhook already holds the
\* new state, so no change is seen again and DAHDI keeps the old one.
CONSTANTS
    QRV_DEBOUNCETIME = 3
    DebounceTimes = {3}
    Params = {"DEBOUNCETIME"}
    MaxInputs = 1
    MaxIoctls = 0
    MaxCloses = 1
SPECIFICATION Spec
PROPERTY HookReported
