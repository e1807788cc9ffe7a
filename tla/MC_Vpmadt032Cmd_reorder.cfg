\* A lost reply makes cmd_vpmadt032_retransmit move the active command
\* behind newer pending ones.
CONSTANTS
    p1 = p1
    k1 = k1
    k2 = k2
    k3 = k3
    noCmd = noCmd
    None = noCmd
    noPage = noPage
    Procs <- MC_Procs
    CmdIds <- MC_CmdIds
    Pages <- MC_Pages
    Offs <- MC_OneOff
    Vals <- MC_Vals
    NoPage = noPage
    VPM150M_MAX_COMMANDS = 2
    MaxWords = 1
    IDMOD = 3
    FramesPerChunk = 3
    LATENCY = 1
    MaxLoss = 1
    MaxAllocFail = 0
    MaxOps = 3
SPECIFICATION Spec
PROPERTIES ReadCorrect
