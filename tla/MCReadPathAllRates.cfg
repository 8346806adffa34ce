CONSTANTS
    CustomerIds <- MCCustomerIds
    Tokens <- MCTokens
    DataRates <- MCDataRatesAll
SPECIFICATION Spec
\* getSamples returns one finite buffer: the read ends when it is decoded.
CHECK_DEADLOCK FALSE
INVARIANT NoMisread
INVARIANT TokenReadInCaptureAtRF16
