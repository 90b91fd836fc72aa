SPECIFICATION Spec
CONSTANT Bits = 5
INVARIANT PrivateKeyWorks
CHECK_DEADLOCK FALSE
