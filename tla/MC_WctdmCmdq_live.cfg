\* Progress: one VPM100 chip with one foreground slot, one process writing
\* it (echocan_create and echocan_free through wctdm_vpm_out), a lost frame
\* (which cmd_retransmit does not repair for a VPM100).  Five frames per
\* chunk, so that the foreground write and both ISR polls fit before the
\* last frame as in the driver's eight; four idents per chunk modulo 3 are
\* coprime like the driver's seven modulo 256, so that every ident comes
\* back at every position.
CONSTANTS
    c1 = c1
    v1 = v1
    p1 = p1
    p2 = p2
    hookReg = hookReg
    lineReg = lineReg
    ecReg = ecReg
    Cards = {v1}
    Procs = {p1}
    Addrs <- MC_AddrsVpm
    Vals <- MC_Vals
    HOOK_STATE = hookReg
    LINE_STATE = lineReg
    USER_COMMANDS = 1
    IDMOD = 3
    FramesPerChunk = 5
    LATENCY = 2
    MaxLoss = 1
    MaxCalls = 2
    DTMF_ON = hookReg
    DTMF_OFF = lineReg
    VPM_FILLER = ecReg
    Signals = FALSE
    VpmCards = {v1}
SPECIFICATION Spec
PROPERTIES CallsReturn HookPolled DtmfAcknowledged
