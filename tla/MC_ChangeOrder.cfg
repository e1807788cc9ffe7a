\* Coalescing, FIFO draining and the echo-canceller switch: two channels,
\* four requests, one failed allocation, G.PAK calls that succeed.
CONSTANTS
    ch1 = ch1
    ch2 = ch2
    nlpA = nlpA
    nlpB = nlpB
    noOrder = noOrder
    Chans <- MC_Chans
    NLP <- MC_NLP
    TapLens <- MC_TapLens
    VPMNLP = nlpA
    NoOrder = noOrder
    MaxReqs = 4
    MaxAllocFail = 1
    MaxDspFail = 0
SPECIFICATION Spec
\* Once the bounded requests are served the worker sleeps until the next
\* echocan request: the driver is idle, not stuck.
CHECK_DEADLOCK FALSE
INVARIANTS TypeOK EcMatchesTap
PROPERTIES EcQueueSpec
