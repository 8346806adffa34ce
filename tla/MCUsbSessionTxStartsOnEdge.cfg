CONSTANTS
    SAMPLE_BUFFER_SIZE <- MCSampleBufferSize
    PULSE_VECTOR_SIZE <- MCPulseVectorSize
    EdgeWait <- MCEdgeWait
    Argvs <- MCArgvs
    PulseVectors <- MCPulseVectors
    SampleBuffers <- MCSampleBuffers
    WriteCalls <- MCWriteCalls
    Runs <- MCRuns
    BusLayouts <- MCBusLayouts
SPECIFICATION Spec
\* One run of the tool, which ends; the firmware then stays idle.
CHECK_DEADLOCK FALSE
PROPERTY TxStartsOnEdge
