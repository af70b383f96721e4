SPECIFICATION ReportSpec
CONSTANTS
    Sessions <- MCSessions
    Agents = {"codex", "claude-code", "cowork"}
    AgentOf <- MCAgentOf
    Children <- MCChildren
    RawAgent = "claude-code"
    AllAgents = "all"
    NoLimit = NoLimit
    DefaultPage = 2
    CommandLines <- MCCommandLines
    InitArchives <- MCArchives
    InitRoots <- MCRoots
    MaxChurn = 1
    Outcomes <- MCOutcomes
    SpreadThreshold = 2
    Unknown = Unknown
INVARIANTS
    OneNamedSource
    CensusMatchesSample
    SampleIsTheNewest
    GapsAreTruncation
    SpreadIsExplained
    ZeroRowsTellOneStory
    EverySessionIsReported
    EmptyReportIsTruthful
