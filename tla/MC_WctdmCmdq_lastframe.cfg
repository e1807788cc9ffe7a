\* The last frame of a chunk: a command sent in it is completed by the
\* answer of the next chunk's first frame, which carries the same ident.
CONSTANTS
    c1 = c1
    v1 = v1
    p1 = p1
    p2 = p2
    hookReg = hookReg
    lineReg = lineReg
    ecReg = ecReg
    Cards <- MC_Cards
    Procs = {p1}
    Addrs <- MC_Addrs
    Vals <- MC_Vals
    HOOK_STATE = hookReg
    LINE_STATE = lineReg
    USER_COMMANDS = 1
    IDMOD = 3
    FramesPerChunk = 3
    LATENCY = 2
    MaxLoss = 0
    MaxCalls = 2
    DTMF_ON = hookReg
    DTMF_OFF = lineReg
    VPM_FILLER = lineReg
    Signals = FALSE
    VpmCards = {}
SPECIFICATION Spec
PROPERTY ReplyMatchingAll
