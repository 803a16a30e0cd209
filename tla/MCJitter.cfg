CONSTANTS
    IntMax = 1023
    WordMod = 4096
    Numbers <- MCNumbers
    Tokens <- MCTokens
    CommandLines <- MCCommandLines
    Configs <- MCConfigs
    XmlConfigs <- MCXmlConfigs
    Addresses <- MCAddresses
    SizeofPerfMsg = 4
    MaskBits = 3
    WarmupNs = 1
    TestNs = 3
    LoopNs = 4
    SockTimes <- MCSockTimes
    StampTimes <- MCStampTimes
    MinSentinel = 2
    PercentScale = 100
SPECIFICATION FairSpec
INVARIANTS AsGiven XmlReadForItsMode AcceptedRuns RefusedForCause MeasuresOnBest ReportsTheLoop
PROPERTIES Ends
CHECK_DEADLOCK FALSE
