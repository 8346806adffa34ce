CONSTANTS
    SAMPLE_BUFFER_SIZE <- MCSampleBufferSize
    PULSE_VECTOR_SIZE <- MCPulseVectorSize
    EdgeWait <- MCEdgeWait
    Argvs <- MCArgvs
    PulseVectors <- MCPulseVectors
    SampleBuffers <- MCSampleBuffers
    WriteCalls <- MCWriteCalls
    Runs <- MCRuns
    BusLayouts <- MCBusLayoutsUnopenable
SPECIFICATION Spec
\* One run of the tool; the firmware stays idle while the host searches.
CHECK_DEADLOCK FALSE
PROPERTY ConstructorReturns
