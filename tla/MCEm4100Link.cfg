CONSTANTS
    CustomerIds <- MCCustomerIds
    Tokens <- MCTokens
    MaxFlips <- MCMaxFlips
SPECIFICATION Spec
INVARIANT NoMisread
INVARIANT TokenOnlyFromValidFrame
PROPERTY TokenEventuallyRead
