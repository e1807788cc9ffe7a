\* DTMF acknowledgement loss: one VPM100 chip alone, one process writing an
\* echo-canceller register of it (echocan_create through wctdm_vpm_out),
\* three requests so that a DTMF-on, a DTMF-off and the write all happen.
CONSTANTS
    c1 = c1
    v1 = v1
    p1 = p1
    p2 = p2
    hookReg = hookReg
    lineReg = lineReg
    ecReg = ecReg
    Cards = {v1}
    Procs = {p1}
    Addrs <- MC_AddrsVpm
    Vals <- MC_Vals
    HOOK_STATE = hookReg
    LINE_STATE = lineReg
    USER_COMMANDS = 1
    IDMOD = 4
    FramesPerChunk = 2
    LATENCY = 2
    MaxLoss = 0
    MaxCalls = 3
    DTMF_ON = hookReg
    DTMF_OFF = lineReg
    VPM_FILLER = ecReg
    Signals = FALSE
    VpmCards = {v1}
SPECIFICATION Spec
PROPERTIES AckNotCancelled
