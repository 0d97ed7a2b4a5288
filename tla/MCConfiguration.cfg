SPECIFICATION Spec
CONSTANTS
    none = none
    a = a
    b = b
    u = u
    d = d
    Absent = none
    Names = {a, b}
    Urls = {u}
    Dirs = {d}
    StreamNodes <- MCStreamNodes
    RtspNodes <- MCRtspNodes
    ReconnectNodes <- MCReconnectNodes
    HlsNodes <- MCHlsNodes
    Ports <- MCPorts
    InferenceNodes <- MCInferenceNodes
    UIntSize = 65000
    PortSize = 65536
    MaxStreams = 2
INVARIANTS
    SettingsAreUsable
    EveryStreamIsWatched
CHECK_DEADLOCK FALSE
