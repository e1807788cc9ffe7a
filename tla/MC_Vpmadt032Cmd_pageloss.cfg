\* Two page changes and a lost frame: cmd_vpmadt032_retransmit resends the
\* first page-change write after the second one.
CONSTANTS
    p1 = p1
    k1 = k1
    k2 = k2
    k3 = k3
    noCmd = noCmd
    None = noCmd
    noPage = noPage
    Procs <- MC_Procs
    CmdIds <- MC_CmdIds
    Pages <- MC_Pages
    Offs <- MC_Offs
    Vals <- MC_Vals
    NoPage = noPage
    VPM150M_MAX_COMMANDS = 2
    MaxWords = 2
    IDMOD = 3
    FramesPerChunk = 3
    LATENCY = 1
    MaxLoss = 1
    MaxAllocFail = 0
    MaxOps = 2
SPECIFICATION Spec
INVARIANT PageCoherent
