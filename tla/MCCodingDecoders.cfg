SPECIFICATION Spec
INVARIANT ManchesterDecodesAfterLock
INVARIANT BiphaseDecodesAfterLock
