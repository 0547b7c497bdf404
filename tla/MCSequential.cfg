SPECIFICATION Spec
CONSTANTS
    NaN = NaN
    Inf = Inf
    Absent = Absent
    Blank = Blank
    Garbage = Garbage
    None = None
    Failed = Failed
    Unset = Unset
    Data <- MCData
    Input <- MCInput
    EmptyName = ""
    LogReserved = {"_aws", "_q", "_t", "app_name", "aws_meta", "delay", "request", "response"}
    MetricReserved = {"_aws", "_q", "_t", "app_name", "aws_meta"}
    MaxMetrics = 6
    MaxDimensions = 3
    Status = {101, 199, 200, 299, 300, 399, 400, 499, 500, 599, 600}
    Latency = {7}
    Bytes = {0, 5}
    Name = {"a", "b"}
    Attributes <- MCAttributes
    Text = {"t"}
    MaxXMLDepth = 3
    MaxTokens = 8
    MaxSummary = 6
    Value = {1, 2}
    KeyOrder <- MCKeyOrder
    Digest <- MCDigest
    MaxShapeDepth = 2
    MaxWraps = 2
    Budget = 2
    Delays = {0, 1, 3}
    Region = {"r1"}
    PodName <- MCPodName
    DefaultAppPort = 8080
    Port = {9000}
    Setting <- MCRaw
    Default <- MCDefault
    Entry <- MCEntry
    AppHost = "app"
    TargetPort = 8080
    MaxEntries = 3
INVARIANTS
    EncodingSucceeds
    EventsCarryTheData
    EntriesAreFaithful
    OneShapeOneHash
    SignatureTellsShapes
    SettingsAsSpecified
    StartupFindsItsPlace
CHECK_DEADLOCK FALSE
