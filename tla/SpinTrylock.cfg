CONSTANT seconds = 3
SPECIFICATION FairSpec
CHECK_DEADLOCK FALSE
INVARIANT TryLockFailsAsExpected
