\* gpakReadDspMemory returns early when an allocation fails, leaving the
\* reads it already issued behind.
CONSTANTS
    p1 = p1
    k1 = k1
    k2 = k2
    k3 = k3
    noCmd = noCmd
    None = noCmd
    noPage = noPage
    Procs <- MC_Procs
    CmdIds <- MC_CmdIds
    Pages <- MC_Pages
    Offs <- MC_Offs
    Vals <- MC_Vals
    NoPage = noPage
    VPM150M_MAX_COMMANDS = 3
    MaxWords = 2
    IDMOD = 3
    FramesPerChunk = 3
    LATENCY = 1
    MaxLoss = 0
    MaxAllocFail = 1
    MaxOps = 2
SPECIFICATION Spec
INVARIANTS NoLostCommand
