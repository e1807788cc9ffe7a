\* Reply matching: two processes sharing one foreground slot beside the two
\* ISR slots, a lossy bus (one lost frame), signals ending waits, the 8-bit
\* ident reduced to modulo 3; three frames per chunk: the filler frame,
\* one frame with an ident of its own and the last frame.
CONSTANTS
    c1 = c1
    v1 = v1
    p1 = p1
    p2 = p2
    hookReg = hookReg
    lineReg = lineReg
    ecReg = ecReg
    Cards <- MC_Cards
    Procs = {p1, p2}
    Addrs <- MC_Addrs
    Vals <- MC_Vals
    HOOK_STATE = hookReg
    LINE_STATE = lineReg
    USER_COMMANDS = 1
    IDMOD = 3
    FramesPerChunk = 3
    LATENCY = 2
    MaxLoss = 1
    MaxCalls = 2
    DTMF_ON = hookReg
    DTMF_OFF = lineReg
    VPM_FILLER = lineReg
    Signals = TRUE
    VpmCards = {}
SPECIFICATION Spec
INVARIANT TypeOK
PROPERTIES ReplyMatching
SYMMETRY MC_Symmetry
