\* The VPMADT032 command channel over a lossy bus: one caller, one request
\* of up to two words, one lost frame, no failed allocation.
CONSTANTS
    p1 = p1
    k1 = k1
    k2 = k2
    k3 = k3
    noCmd = noCmd
    None = noCmd
    noPage = noPage
    Procs <- MC_Procs
    CmdIds <- MC_CmdIds
    Pages <- MC_Pages
    Offs <- MC_Offs
    Vals <- MC_Vals
    NoPage = noPage
    VPM150M_MAX_COMMANDS = 2
    MaxWords = 2
    IDMOD = 3
    FramesPerChunk = 3
    LATENCY = 1
    MaxLoss = 1
    MaxAllocFail = 0
    MaxOps = 1
SPECIFICATION Spec
INVARIANTS TypeOK NoLostCommand
PROPERTIES ReplyMatching CallsReturn
