CONSTANTS
    Self = 0
    Frames <- MCHonestFrames
    Ticks = 1
    MaxSigners = 1
SPECIFICATION Spec
INVARIANT NoDeadlock
CHECK_DEADLOCK FALSE
