SPECIFICATION Spec
INVARIANT EpromIsFrame
