CONSTANTS
    CustomerIds <- MCCustomerIds
    Tokens <- MCTokens
    DataRates <- MCDataRates
    EdgeWait <- MCEdgeWait
SPECIFICATION Spec
\* main.cpp returns after its last putSamples call or its first failure.
CHECK_DEADLOCK FALSE
INVARIANT CoilPlaysSamples
