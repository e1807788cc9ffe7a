\* Channel 1 tests its mode with | instead of &: its COR input is always
\* ignored, whatever IGNORECOR and INVERTCOR say.
CONSTANTS
    QRV_DEBOUNCETIME = 3
    DebounceTimes = {2}
    Params = {"INVERTCOR", "DEBOUNCETIME"}
    MaxInputs = 1
    MaxIoctls = 0
    MaxCloses = 0
SPECIFICATION Spec
PROPERTY CarrierHonoured
