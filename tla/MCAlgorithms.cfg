CONSTANTS
    contextLines = 1
    windowSlack = 1
    regionStepsMin = 4
    regionStepsMax = 8
    DiffInputs <- MCDiffInputs
    maxRetryAfter = 12
    secondsWidth = 9
    sseBufferLimit = 3
    numberWidth = 24
    DelayInputs <- MCDelayInputs
    HeaderValues <- MCHeaderValues
    Streams <- MCStreams
    Numbers <- MCNumbers
    UsageSequences <- MCUsageSequences
    HeaderInputs <- MCHeaderInputs
    Conversations <- MCConversations
SPECIFICATION AllSpec
CHECK_DEADLOCK FALSE
INVARIANTS
    DiffIsPatch
    DiffIsShortest
    NumbersInBounds
    UsageIsTotal
    EventsOfStream
    HeadersAsConfigured
    CallsAnswered
