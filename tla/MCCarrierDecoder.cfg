CONSTANTS
    Lengths <- MCLengths
    MaxCount <- MCMaxCount
INIT MCInit
NEXT MCNext
CONSTRAINT CountConstraint
INVARIANT CarrierTypeOK
INVARIANT BadRunBounded
PROPERTY RotationOnlyOnSustainedError
