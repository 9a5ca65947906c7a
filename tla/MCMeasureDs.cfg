\* One node's measurements: two ticks (so that a later round can be
\* delivered while an earlier one stalls), one frame each way.
\* main exits after writing the file, so the end of a behaviour is
\* the process ending, not a deadlock.
CONSTANTS
    MaxRound = 2
    MaxFrames = 1
    FrameLen = {1}
    NumPeers = 3
    INF = INF
SPECIFICATION Spec
INVARIANT MeasurementFileFaithful
CHECK_DEADLOCK FALSE
