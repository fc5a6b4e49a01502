\* Every plan, body and outcome of one request; a fair goroutine, deadline and context.
SPECIFICATION Spec
CONSTANTS
    MaxChunks = 2
    Limit = 1
INVARIANTS
    UpstreamCallsRecorded
    
    AnsweredUnlessNull
    BufferedIsWhole
    ShapedNeverStreams
    ProtectedNeverStreams
PROPERTY Terminates
