\* Interrupted wctdm_getreg: one process, signals, no loss.
CONSTANTS
    c1 = c1
    v1 = v1
    p1 = p1
    p2 = p2
    hookReg = hookReg
    lineReg = lineReg
    ecReg = ecReg
    Cards <- MC_Cards
    Procs = {p1}
    Addrs <- MC_Addrs
    Vals <- MC_Vals
    HOOK_STATE = hookReg
    LINE_STATE = lineReg
    USER_COMMANDS = 2
    IDMOD = 4
    FramesPerChunk = 2
    LATENCY = 2
    MaxLoss = 0
    MaxCalls = 2
    DTMF_ON = hookReg
    DTMF_OFF = lineReg
    VPM_FILLER = lineReg
    Signals = TRUE
    VpmCards = {}
SPECIFICATION Spec
INVARIANT NoOrphanRead
