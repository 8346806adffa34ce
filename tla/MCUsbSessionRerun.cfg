CONSTANTS
    SAMPLE_BUFFER_SIZE <- MCSampleBufferSize
    PULSE_VECTOR_SIZE <- MCPulseVectorSize
    EdgeWait <- MCEdgeWait
    Argvs <- MCArgvs
    PulseVectors <- MCPulseVectors
    SampleBuffers <- MCSampleBuffers
    WriteCalls <- MCWriteCalls
    Runs <- MCRerunRuns
    BusLayouts <- MCBusLayouts
SPECIFICATION RerunSpec
\* The user stops running the tool after MCRerunRuns runs.
CHECK_DEADLOCK FALSE
PROPERTY StatusOkMeansDone
